---------------------------- MODULE Spec2Model ----------------------------
(***************************************************************************)
(* Model of ImplicitBooleanCSG: the implicit-surface tree (Vec3, the       *)
(* primitives, the hard and smooth boolean operations, the numeric         *)
(* gradient), the GLSL distance functions and the rayMarch loop of the     *)
(* fragment shader, and the renderer's configuration.                      *)
(*                                                                         *)
(* Numbers.  A C++ double / GLSL float is modelled as an exact rational    *)
(* <<n, d>> in lowest terms with d > 0, extended with the IEEE specials    *)
(* NaN = <<0, 0>>, +Inf = <<1, 0>> and -Inf = <<-1, 0>> (what a division   *)
(* by zero produces).  Rounding of +, -, *, / is not modelled; std::sqrt   *)
(* is exact on perfect squares and rounds down otherwise.                  *)
(***************************************************************************)
EXTENDS Integers, Sequences, FiniteSets, TLC

VARIABLES
    maxSteps,      \* ImplicitRenderer::maxSteps, the uniform maxSteps
    maxDistance,   \* ImplicitRenderer::maxDistance, the uniform maxDistance
    epsilon,       \* ImplicitRenderer::epsilon, the uniform epsilon
    obj,           \* the surface object a caller holds (NoNode: none yet)
    op,            \* the last library call made on it
    arg,           \* the argument (a point or vector) of that call
    val,           \* the value evaluate returned
    childL,        \* evaluate's local childL = left->evaluate(point)
    childR,        \* right->evaluate(point), from which evaluate sets childR
    evals,         \* gradient: the values of its evaluate calls, by point
    diff,          \* gradient: the local Vec3 grad(dx, dy, dz) before normalize
    grad,          \* the vector gradient or normalize returned
    sval,          \* the value the shader's smooth operation returned
    pc,            \* rayMarch: the position in the function
    i,             \* rayMarch: the loop counter
    depth,         \* rayMarch: the local depth
    dist,          \* rayMarch: the local dist of the current iteration
    steps,         \* rayMarch: the out parameter steps
    ret,           \* rayMarch: the returned value
    hist,          \* rayMarch: the scene distances evaluated so far, in order
    heap,          \* the live surface nodes, by address
    scene,         \* ImplicitRenderer::scene, the root's address (0: nullptr)
    programID,     \* ImplicitRenderer::programID (0: none)
    programs,      \* the GL program objects created so far, by id
    current,       \* the GL context's current program (glUseProgram)
    stack,         \* the main thread's call stack, the innermost call last:
                   \* frames [pc, arg], arg the frame's shared_ptr (0: none)
    keys,          \* the key events GLFW holds for the window, oldest first
    shouldClose,   \* glfwWindowShouldClose(window)
    pressed,       \* how many key events the user has made
    lastKey,       \* the key of the last scene-selecting press ("": none)
    used,          \* render: the program and scene at its glUseProgram
    drawn,         \* the program and scene of the last glDrawArrays
    faulty,        \* the scene text the GL driver rejects, and how (NoFault: none)
    g_renderer,    \* main.cpp's g_renderer: TRUE for &renderer, FALSE for nullptr
    returned,      \* <<>> while main runs, then <<the value main returned>>
    shaders,       \* the GL shader objects created so far: [type, deleted]
    deletedPrograms, \* the ids of the programs glDeleteProgram was called for
    sdf,           \* the scene the program's sceneSDF computes (NoNode: any)
    ro,            \* fragment main: the ray origin ro
    rd,            \* fragment main: the ray direction rd
    phase,         \* fragment main: the position in main and calculateLighting
    mainSteps,     \* fragment main: its local steps
    mainDist,      \* fragment main: its local dist
    lightDist,     \* calculateLighting: length(lightPosition - shadowPos)
    lit,           \* calculateLighting: diffuse + specular (white light)
    shadowSteps,   \* calculateLighting: its local shadowSteps
    shadow,        \* calculateLighting: its local shadow
    color,         \* fragment main: the intensity written to fragColor
    sdfCalls,      \* the sceneSDF evaluations made for this fragment
    pixels,        \* the fragments of the frame that are finished
    frameCalls     \* the sceneSDF evaluations made for the finished fragments

rendererVars == <<maxSteps, maxDistance, epsilon>>

surfaceVars == <<obj, op, arg, val, childL, childR, evals, diff, grad, sval>>

marchVars == <<pc, i, depth, dist, steps, ret, hist>>

appVars ==
    <<heap, scene, programID, programs, current, stack, keys,
      shouldClose, pressed, lastKey, used, drawn, faulty,
      g_renderer, returned, shaders, deletedPrograms>>

pixelVars ==
    <<sdf, ro, rd, phase, mainSteps, mainDist, lightDist, lit, shadowSteps,
      shadow, color, sdfCalls, pixels, frameCalls>>

vars == <<rendererVars, surfaceVars, marchVars, appVars, pixelVars>>

(***************************************************************************)
(* Floating-point values                                                   *)
(***************************************************************************)
Abs(n) == IF n < 0 THEN -n ELSE n

Sgn(n) == IF n < 0 THEN -1 ELSE IF n > 0 THEN 1 ELSE 0

RECURSIVE GCD(_, _)
GCD(a, b) == IF b = 0 THEN a ELSE GCD(b, a % b)

\* the rational n/d (d /= 0) in lowest terms with a positive denominator
Rat(n, d) ==
    LET g == GCD(Abs(n), Abs(d))
    IN  <<Sgn(d) * (n \div g), Abs(d) \div g>>

NaN == <<0, 0>>

PInf == <<1, 0>>

NInf == <<-1, 0>>

Zero == <<0, 1>>

One == <<1, 1>>

IsFin(a) == a[2] # 0

IsNaN(a) == a = NaN

\* unary minus
FNeg(a) == <<-a[1], a[2]>>

\* a + b
FAdd(a, b) ==
    IF IsNaN(a) \/ IsNaN(b) THEN NaN
    ELSE IF ~IsFin(a) THEN (IF ~IsFin(b) /\ b # a THEN NaN ELSE a)
    ELSE IF ~IsFin(b) THEN b
    ELSE LET g == GCD(a[2], b[2])
         IN  Rat(a[1] * (b[2] \div g) + b[1] * (a[2] \div g), (a[2] \div g) * b[2])

\* a - b
FSub(a, b) == FAdd(a, FNeg(b))

\* a * b
FMul(a, b) ==
    IF IsNaN(a) \/ IsNaN(b) THEN NaN
    ELSE IF ~IsFin(a) \/ ~IsFin(b)
         THEN (IF a[1] = 0 \/ b[1] = 0 THEN NaN ELSE <<Sgn(a[1]) * Sgn(b[1]), 0>>)
    ELSE LET g1 == GCD(Abs(a[1]), b[2])
             g2 == GCD(Abs(b[1]), a[2])
         IN  <<(a[1] \div g1) * (b[1] \div g2), (a[2] \div g2) * (b[2] \div g1)>>

\* a / b, with the IEEE results of a division by zero
FDiv(a, b) ==
    IF IsNaN(a) \/ IsNaN(b) THEN NaN
    ELSE IF ~IsFin(b) THEN (IF ~IsFin(a) THEN NaN ELSE Zero)
    ELSE IF b[1] = 0 THEN (IF a[1] = 0 THEN NaN ELSE <<Sgn(a[1]), 0>>)
    ELSE IF ~IsFin(a) THEN <<Sgn(a[1]) * Sgn(b[1]), 0>>
    ELSE FMul(a, <<Sgn(b[1]) * b[2], Abs(b[1])>>)

\* a < b (false when either side is NaN)
FLt(a, b) ==
    IF IsNaN(a) \/ IsNaN(b) THEN FALSE
    ELSE IF ~IsFin(a) \/ ~IsFin(b)
         THEN a # b /\ (a = NInf \/ b = PInf)
    ELSE LET g == GCD(a[2], b[2])
         IN  a[1] * (b[2] \div g) < b[1] * (a[2] \div g)

\* a == b (false when either side is NaN)
FEq(a, b) == ~IsNaN(a) /\ ~IsNaN(b) /\ a = b

\* a >= b (false when either side is NaN)
FGe(a, b) == FLt(b, a) \/ FEq(a, b)

\* std::min(a, b): (b < a) ? b : a
FMin(a, b) == IF FLt(b, a) THEN b ELSE a

\* std::max(a, b): (a < b) ? b : a
FMax(a, b) == IF FLt(a, b) THEN b ELSE a

\* std::abs
FAbs(a) == <<Abs(a[1]), a[2]>>

RECURSIVE Newton(_, _)
Newton(n, x) ==
    LET y == (x + n \div x) \div 2
    IN  IF y >= x THEN x ELSE Newton(n, y)

\* the integer square root, floor(sqrt(n)), n >= 0
ISqrt(n) == IF n < 2 THEN n ELSE Newton(n, n \div 2 + 1)

\* the largest value of the model's integers
MaxInt == 2^30 + (2^30 - 1)

\* floor(n * res * res / d), or -1 when it cannot be computed within MaxInt
Radicand(n, d, res) ==
    LET g1 == GCD(res, d)
        f1 == res \div g1
        d1 == d \div g1
        g2 == GCD(res, d1)
        f2 == res \div g2
        d2 == d1 \div g2
    IN  IF f1 > MaxInt \div f2 THEN -1
        ELSE IF n > MaxInt \div (f1 * f2) THEN -1
        ELSE (n * f1 * f2) \div d2

\* std::sqrt: exact on the square of a rational; otherwise rounded down to
\* two or three significant digits (resolution 1/100 for roots >= 0.1, then
\* 1/10000, then 1/1000000), the model's floating-point precision
FSqrt(a) ==
    IF IsNaN(a) \/ a = NInf THEN NaN
    ELSE IF a = PInf THEN PInf
    ELSE IF a[1] < 0 THEN NaN
    ELSE LET sn == ISqrt(a[1])
             sd == ISqrt(a[2])
             r2 == Radicand(a[1], a[2], 100)
             r4 == Radicand(a[1], a[2], 10000)
             r6 == Radicand(a[1], a[2], 1000000)
         IN  IF sn * sn = a[1] /\ sd * sd = a[2] THEN <<sn, sd>>
             ELSE IF r2 = -1 THEN Rat(ISqrt(a[1] \div a[2]), 1)
             ELSE IF r2 >= 100 \/ r4 = -1 THEN Rat(ISqrt(r2), 100)
             ELSE IF r4 >= 100 \/ r6 = -1 THEN Rat(ISqrt(r4), 10000)
             ELSE Rat(ISqrt(r6), 1000000)

(***************************************************************************)
(* Vec3: a triple <<x, y, z>> of values                                    *)
(***************************************************************************)
Vec3(x, y, z) == <<x, y, z>>

\* Vec3::length
length(v) == FSqrt(FAdd(FAdd(FMul(v[1], v[1]), FMul(v[2], v[2])), FMul(v[3], v[3])))

\* normalize without the zero-length test (the division is always made)
normalize_unguarded(v) ==
    LET len == length(v)
    IN  Vec3(FDiv(v[1], len), FDiv(v[2], len), FDiv(v[3], len))

\* Vec3::normalize: a zero-length vector is returned unchanged
normalize(v) ==
    LET len == length(v)
    IN  IF FEq(len, Zero) THEN v
        ELSE Vec3(FDiv(v[1], len), FDiv(v[2], len), FDiv(v[3], len))

\* Vec3::operator+
VAdd(a, b) == Vec3(FAdd(a[1], b[1]), FAdd(a[2], b[2]), FAdd(a[3], b[3]))

\* Vec3::operator-
VSub(a, b) == Vec3(FSub(a[1], b[1]), FSub(a[2], b[2]), FSub(a[3], b[3]))

\* Vec3::operator*(scalar)
VScale(a, s) == Vec3(FMul(a[1], s), FMul(a[2], s), FMul(a[3], s))

\* Vec3::dot
dot(a, b) == FAdd(FAdd(FMul(a[1], b[1]), FMul(a[2], b[2])), FMul(a[3], b[3]))

(***************************************************************************)
(* The implicit-surface classes.  A node is a record; its constructor      *)
(* stores its arguments as given.                                          *)
(***************************************************************************)
Sphere(center, radius) == [type |-> "Sphere", center |-> center, radius |-> radius]

Box(center, dimensions, smoothing) ==
    [type |-> "Box", center |-> center, dimensions |-> dimensions,
     smoothing |-> smoothing]

\* the constructor normalizes the normal
Plane(normal, distance) ==
    [type |-> "Plane", normal |-> normalize(normal), distance |-> distance]

Cylinder(start, end, radius) ==
    [type |-> "Cylinder", start |-> start, end |-> end, radius |-> radius]

UnionOp(left, right) == [type |-> "UnionOp", left |-> left, right |-> right]

IntersectionOp(left, right) ==
    [type |-> "IntersectionOp", left |-> left, right |-> right]

DifferenceOp(left, right) ==
    [type |-> "DifferenceOp", left |-> left, right |-> right]

SmoothUnionOp(left, right, smoothFactor) ==
    [type |-> "SmoothUnionOp", left |-> left, right |-> right, k |-> smoothFactor]

SmoothIntersectionOp(left, right, smoothFactor) ==
    [type |-> "SmoothIntersectionOp", left |-> left, right |-> right,
     k |-> smoothFactor]

SmoothDifferenceOp(left, right, smoothFactor) ==
    [type |-> "SmoothDifferenceOp", left |-> left, right |-> right,
     k |-> smoothFactor]

HardTypes == {"UnionOp", "IntersectionOp", "DifferenceOp"}

SmoothTypes == {"SmoothUnionOp", "SmoothIntersectionOp", "SmoothDifferenceOp"}

\* a BooleanOperation holds two children
IsBoolean(node) == node.type \in HardTypes \cup SmoothTypes

\* Sphere::evaluate
SphereEvaluate(s, point) == FSub(length(VSub(point, s.center)), s.radius)

\* Box::evaluate
BoxEvaluate(b, point) ==
    LET d == Vec3(FSub(FAbs(FSub(point[1], b.center[1])), b.dimensions[1]),
                  FSub(FAbs(FSub(point[2], b.center[2])), b.dimensions[2]),
                  FSub(FAbs(FSub(point[3], b.center[3])), b.dimensions[3]))
        dMax == Vec3(FMax(d[1], Zero), FMax(d[2], Zero), FMax(d[3], Zero))
    IN  FSub(FAdd(length(dMax), FMin(FMax(d[1], FMax(d[2], d[3])), Zero)),
             b.smoothing)

\* Plane::evaluate
PlaneEvaluate(pl, point) == FAdd(dot(pl.normal, point), pl.distance)

\* Cylinder::evaluate
CylinderEvaluate(c, point) ==
    LET axis0 == VSub(c.end, c.start)
        len == length(axis0)
        axis == normalize(axis0)
        relativePos == VSub(point, c.start)
        dot0 == dot(relativePos, axis)
        dot1 == FMax(Zero, FMin(len, dot0))
        closestPoint == VAdd(c.start, VScale(axis, dot1))
    IN  FSub(length(VSub(point, closestPoint)), c.radius)

\* a union that keeps the larger value
UnionOpEvaluate_max(leftVal, rightVal) == FMax(leftVal, rightVal)

\* UnionOp::evaluate on the children's values
UnionOpEvaluate(leftVal, rightVal) == FMin(leftVal, rightVal)

\* IntersectionOp::evaluate on the children's values
IntersectionOpEvaluate(leftVal, rightVal) == FMax(leftVal, rightVal)

\* DifferenceOp::evaluate on the children's values
DifferenceOpEvaluate(leftVal, rightVal) == FMax(leftVal, FNeg(rightVal))

Sixth == <<1, 6>>

\* a blend term with h squared instead of cubed
SmoothTerm_squared(leftVal, rightVal, k) ==
    LET h == FDiv(FMax(FSub(k, FAbs(FSub(leftVal, rightVal))), Zero), k)
    IN  FMul(FMul(FMul(h, h), k), Sixth)

\* the blend term h * h * h * k * (1.0/6.0) of the smooth operations
SmoothTerm(leftVal, rightVal, k) ==
    LET h == FDiv(FMax(FSub(k, FAbs(FSub(leftVal, rightVal))), Zero), k)
    IN  FMul(FMul(FMul(FMul(h, h), h), k), Sixth)

\* SmoothUnionOp::evaluate on the children's values
SmoothUnionOpEvaluate(leftVal, rightVal, k) ==
    FSub(FMin(leftVal, rightVal), SmoothTerm(leftVal, rightVal, k))

\* SmoothIntersectionOp::evaluate on the children's values
SmoothIntersectionOpEvaluate(leftVal, rightVal, k) ==
    FAdd(FMax(leftVal, rightVal), SmoothTerm(leftVal, rightVal, k))

\* SmoothDifferenceOp::evaluate on the children's values (rightVal = -right)
SmoothDifferenceOpEvaluate(leftVal, rightVal0, k) ==
    LET rightVal == FNeg(rightVal0)
    IN  FAdd(FMax(leftVal, rightVal), SmoothTerm(leftVal, rightVal, k))

\* ImplicitSurface::evaluate, dispatched on the node's class
RECURSIVE evaluate(_, _)
evaluate(node, point) ==
    CASE node.type = "Sphere" -> SphereEvaluate(node, point)
      [] node.type = "Box" -> BoxEvaluate(node, point)
      [] node.type = "Plane" -> PlaneEvaluate(node, point)
      [] node.type = "Cylinder" -> CylinderEvaluate(node, point)
      [] node.type = "UnionOp" ->
            UnionOpEvaluate(evaluate(node.left, point), evaluate(node.right, point))
      [] node.type = "IntersectionOp" ->
            IntersectionOpEvaluate(evaluate(node.left, point),
                                   evaluate(node.right, point))
      [] node.type = "DifferenceOp" ->
            DifferenceOpEvaluate(evaluate(node.left, point),
                                 evaluate(node.right, point))
      [] node.type = "SmoothUnionOp" ->
            SmoothUnionOpEvaluate(evaluate(node.left, point),
                                  evaluate(node.right, point), node.k)
      [] node.type = "SmoothIntersectionOp" ->
            SmoothIntersectionOpEvaluate(evaluate(node.left, point),
                                         evaluate(node.right, point), node.k)
      [] node.type = "SmoothDifferenceOp" ->
            SmoothDifferenceOpEvaluate(evaluate(node.left, point),
                                       evaluate(node.right, point), node.k)

\* FSqrt(a) is exact: a is the square of a rational, or has no finite root
SqrtExact(a) ==
    \/ ~IsFin(a)
    \/ a[1] < 0
    \/ ISqrt(a[1]) * ISqrt(a[1]) = a[1] /\ ISqrt(a[2]) * ISqrt(a[2]) = a[2]

\* length(v) is exact
LengthExact(v) == SqrtExact(dot(v, v))

\* evaluate(node, point) takes no rounded square root: its value is the exact
\* one
RECURSIVE ExactAt(_, _)
ExactAt(node, point) ==
    CASE node.type = "Sphere" -> LengthExact(VSub(point, node.center))
      [] node.type = "Box" ->
            LengthExact(Vec3(
                FMax(FSub(FAbs(FSub(point[1], node.center[1])), node.dimensions[1]), Zero),
                FMax(FSub(FAbs(FSub(point[2], node.center[2])), node.dimensions[2]), Zero),
                FMax(FSub(FAbs(FSub(point[3], node.center[3])), node.dimensions[3]), Zero)))
      [] node.type = "Plane" -> TRUE
      [] node.type = "Cylinder" ->
            LET axis0 == VSub(node.end, node.start)
                axis == normalize(axis0)
                dot1 == FMax(Zero, FMin(length(axis0), dot(VSub(point, node.start), axis)))
            IN  /\ LengthExact(axis0)
                /\ LengthExact(VSub(point, VAdd(node.start, VScale(axis, dot1))))
      [] OTHER -> ExactAt(node.left, point) /\ ExactAt(node.right, point)

\* the perturbation h = 0.0001 of the numeric gradient, as 1/HDen
HDen == 10000

GradH == <<1, HDen>>

\* the six points gradient calls evaluate at: point +/- h along each axis
GradientPoints(point) ==
    {Vec3(FAdd(point[1], GradH), point[2], point[3]),
     Vec3(FSub(point[1], GradH), point[2], point[3]),
     Vec3(point[1], FAdd(point[2], GradH), point[3]),
     Vec3(point[1], FSub(point[2], GradH), point[3]),
     Vec3(point[1], point[2], FAdd(point[3], GradH)),
     Vec3(point[1], point[2], FSub(point[3], GradH))}

\* the differences taken the wrong way round: evaluate(p - h) - evaluate(p + h)
CentralDifferences_reversed(e, point) ==
    Vec3(FSub(e[Vec3(FSub(point[1], GradH), point[2], point[3])],
              e[Vec3(FAdd(point[1], GradH), point[2], point[3])]),
         FSub(e[Vec3(point[1], FSub(point[2], GradH), point[3])],
              e[Vec3(point[1], FAdd(point[2], GradH), point[3])]),
         FSub(e[Vec3(point[1], point[2], FSub(point[3], GradH))],
              e[Vec3(point[1], point[2], FAdd(point[3], GradH))]))

\* gradient's locals (dx, dy, dz) from the values e evaluate returned at the
\* six points: evaluate(p + h) - evaluate(p - h) along each axis
CentralDifferences(e, point) ==
    Vec3(FSub(e[Vec3(FAdd(point[1], GradH), point[2], point[3])],
              e[Vec3(FSub(point[1], GradH), point[2], point[3])]),
         FSub(e[Vec3(point[1], FAdd(point[2], GradH), point[3])],
              e[Vec3(point[1], FSub(point[2], GradH), point[3])]),
         FSub(e[Vec3(point[1], point[2], FAdd(point[3], GradH))],
              e[Vec3(point[1], point[2], FSub(point[3], GradH))]))

(***************************************************************************)
(* The GLSL distance functions of the shader text                          *)
(***************************************************************************)
Half == <<1, 2>>

\* GLSL clamp(x, lo, hi) = min(max(x, lo), hi)
clamp(x, lo, hi) == FMin(FMax(x, lo), hi)

\* GLSL mix(x, y, a) = x * (1 - a) + y * a
mix(x, y, a) == FAdd(FMul(x, FSub(One, a)), FMul(y, a))

\* a sphere distance that forgets the radius
sphereSDF_noRadius(p, center, radius) == length(VSub(p, center))

sphereSDF(p, center, radius) == FSub(length(VSub(p, center)), radius)

boxSDF(p, center, dimensions) ==
    LET d == Vec3(FSub(FAbs(FSub(p[1], center[1])), dimensions[1]),
                  FSub(FAbs(FSub(p[2], center[2])), dimensions[2]),
                  FSub(FAbs(FSub(p[3], center[3])), dimensions[3]))
        dMax == Vec3(FMax(d[1], Zero), FMax(d[2], Zero), FMax(d[3], Zero))
    IN  FAdd(length(dMax), FMin(FMax(d[1], FMax(d[2], d[3])), Zero))

cylinderSDF(p, start, end, radius) ==
    LET ba == VSub(end, start)
        pa == VSub(p, start)
        h == clamp(FDiv(dot(pa, ba), dot(ba, ba)), Zero, One)
    IN  FSub(length(VSub(pa, VScale(ba, h))), radius)

unionOp(d1, d2) == FMin(d1, d2)

intersectionOp(d1, d2) == FMax(d1, d2)

differenceOp(d1, d2) == FMax(d1, FNeg(d2))

\* a shader union that uses the polynomial blend of the object model
smoothUnionOp_polynomial(d1, d2, k) == SmoothUnionOpEvaluate(d1, d2, k)

smoothUnionOp(d1, d2, k) ==
    LET h == clamp(FAdd(Half, FDiv(FMul(Half, FSub(d2, d1)), k)), Zero, One)
    IN  FSub(mix(d2, d1, h), FMul(FMul(k, h), FSub(One, h)))

smoothIntersectionOp(d1, d2, k) ==
    LET h == clamp(FSub(Half, FDiv(FMul(Half, FSub(d2, d1)), k)), Zero, One)
    IN  FAdd(mix(d2, d1, h), FMul(FMul(k, h), FSub(One, h)))

smoothDifferenceOp(d1, d2, k) ==
    LET h == clamp(FSub(Half, FDiv(FMul(Half, FAdd(d2, d1)), k)), Zero, One)
    IN  FAdd(mix(d1, FNeg(d2), h), FMul(FMul(k, h), FSub(One, h)))

(***************************************************************************)
(* The scene factories                                                     *)
(***************************************************************************)
\* a literal such as 0.8 = Dec(8, 10)
Dec(n, d) == Rat(n, d)

\* the default argument smoothing = 0.1 of Box's constructor
DefaultSmoothing == Dec(1, 10)

\* the default argument smoothFactor = 0.1 of the smooth operations
DefaultSmoothFactor == Dec(1, 10)

Origin == Vec3(Zero, Zero, Zero)

createSphereScene == Sphere(Origin, One)

\* a union scene whose second sphere is away from the z axis
createCSGUnionScene_lopsided ==
    LET sphere1 == Sphere(Vec3(Dec(-1, 2), Zero, Zero), One)
        sphere2 == Sphere(Vec3(Dec(3, 2), Zero, Zero), One)
    IN  UnionOp(sphere1, sphere2)

createCSGUnionScene ==
    LET sphere1 == Sphere(Vec3(Dec(-1, 2), Zero, Zero), One)
        sphere2 == Sphere(Vec3(Dec(1, 2), Zero, Zero), One)
    IN  UnionOp(sphere1, sphere2)

createCSGIntersectionScene ==
    LET sphere == Sphere(Origin, One)
        box == Box(Origin, Vec3(Dec(4, 5), Dec(4, 5), Dec(4, 5)), DefaultSmoothing)
    IN  IntersectionOp(sphere, box)

createCSGDifferenceScene ==
    LET sphere == Sphere(Origin, One)
        box == Box(Vec3(Dec(1, 2), Zero, Zero), Vec3(Dec(4, 5), Dec(4, 5), Dec(4, 5)),
                   DefaultSmoothing)
    IN  DifferenceOp(sphere, box)

createComplexCSGScene ==
    LET sphere1 == Sphere(Vec3(Dec(-1, 1), Zero, Zero), Dec(6, 5))
        sphere2 == Sphere(Vec3(One, Zero, Zero), Dec(6, 5))
        sphereUnion == UnionOp(sphere1, sphere2)
        box == Box(Origin, Vec3(Dec(4, 5), Dec(4, 5), Dec(4, 5)), DefaultSmoothing)
    IN  DifferenceOp(sphereUnion, box)

createCustomScene ==
    LET sphere1 == Sphere(Vec3(Dec(-4, 5), Dec(3, 10), Zero), One)
        sphere2 == Sphere(Vec3(Dec(4, 5), Dec(-1, 5), Zero), Dec(4, 5))
        box == Box(Origin, Vec3(Dec(3, 5), Dec(3, 5), Dec(2, 1)), DefaultSmoothing)
        cylinder == Cylinder(Vec3(Zero, Zero, Dec(-3, 2)), Vec3(Zero, Zero, Dec(3, 2)),
                             Dec(2, 5))
        unionSpheres == SmoothUnionOp(sphere1, sphere2, Dec(1, 5))
        diffWithBox == SmoothDifferenceOp(unionSpheres, box, Dec(1, 10))
    IN  SmoothIntersectionOp(diffWithBox, cylinder, Dec(1, 10))

(***************************************************************************)
(* The renderer's and the library's state after construction               *)
(***************************************************************************)
\* "no value": what a result variable holds before the call that sets it
NoVal == <<0, -1>>

NoVec == <<NoVal, NoVal, NoVal>>

NoNode == [type |-> "none"]

NoFault == [text |-> "", how |-> "ok"]

\* ImplicitRenderer::ImplicitRenderer: maxSteps(100), maxDistance(100.0f),
\* epsilon(0.001f)
RendererInit ==
    /\ maxSteps = 100
    /\ maxDistance = Dec(100, 1)
    /\ epsilon = Dec(1, 1000)

SurfaceInit ==
    /\ obj = NoNode
    /\ op = "none"
    /\ arg = NoVec
    /\ val = NoVal
    /\ childL = NoVal
    /\ childR = NoVal
    /\ evals = <<>>
    /\ diff = NoVec
    /\ grad = NoVec
    /\ sval = NoVal

\* the application has not started: no node, no window event, no GL program
AppIdle ==
    /\ heap = <<>>
    /\ scene = 0
    /\ programID = 0
    /\ programs = <<>>
    /\ current = 0
    /\ stack = <<>>
    /\ keys = <<>>
    /\ shouldClose = FALSE
    /\ pressed = 0
    /\ lastKey = ""
    /\ used = <<0, 0>>
    /\ drawn = <<0, 0>>
    /\ faulty = NoFault
    /\ g_renderer = FALSE
    /\ returned = <<>>
    /\ shaders = <<>>
    /\ deletedPrograms = {}

\* no fragment is being shaded
PixelIdle ==
    /\ sdf = NoNode
    /\ ro = NoVec
    /\ rd = NoVec
    /\ phase = "idle"
    /\ mainSteps = 0
    /\ mainDist = NoVal
    /\ lightDist = NoVal
    /\ lit = NoVal
    /\ shadowSteps = 0
    /\ shadow = NoVal
    /\ color = NoVal
    /\ sdfCalls = 0
    /\ pixels = 0
    /\ frameCalls = 0

MarchIdle ==
    /\ pc = "idle"
    /\ i = 0
    /\ depth = NoVal
    /\ dist = NoVal
    /\ steps = 0
    /\ ret = NoVal
    /\ hist = <<>>

(***************************************************************************)
(* Construction of surface objects by a caller of the library              *)
(***************************************************************************)
\* coordinates are multiples of 1/2 in -MaxCoord/2 .. MaxCoord/2
MaxCoord == 3

Coords == {Rat(c, 2) : c \in -MaxCoord..MaxCoord}

\* the sample points: the three axes and the diagonal of the xy plane
Points ==
    {Vec3(c, Zero, Zero) : c \in Coords} \cup {Vec3(Zero, c, Zero) : c \in Coords}
        \cup {Vec3(Zero, Zero, c) : c \in Coords} \cup {Vec3(c, c, Zero) : c \in Coords}

SphereCenters == {Origin, Vec3(Dec(1, 2), Zero, Zero)}

PlaneNormals == {Vec3(Zero, Dec(2, 1), Zero), Vec3(Dec(3, 1), Dec(4, 1), Zero)}

CylinderEnds == {Vec3(Zero, Zero, Dec(-3, 2)), Vec3(Zero, Zero, Dec(3, 2))}

\* the smooth factors a caller passes: the program's 0.2 and 0.1, and the
\* invalid 0 and -0.1
SmoothFactors == {Dec(1, 5), Dec(1, 10), Zero, Dec(-1, 10)}

\* the children a caller combines: a sphere, a box and a composite
Operands ==
    {createSphereScene,
     Box(Origin, Vec3(Dec(4, 5), Dec(4, 5), Dec(4, 5)), DefaultSmoothing),
     createCSGUnionScene}

FactoryScenes ==
    {createSphereScene, createCSGUnionScene, createCSGIntersectionScene,
     createCSGDifferenceScene, createComplexCSGScene, createCustomScene}

\* the caller holds an object (or none yet) and no result of a call
Ready == op \in {"none", "held"}

\* a constructor returned n: the caller holds it and has made no call on it
Constructed(n) ==
    /\ obj' = n
    /\ op' = "held"
    /\ arg' = NoVec
    /\ val' = NoVal
    /\ childL' = NoVal
    /\ childR' = NoVal
    /\ evals' = <<>>
    /\ diff' = NoVec
    /\ grad' = NoVec
    /\ sval' = NoVal
    /\ UNCHANGED <<rendererVars, marchVars, appVars, pixelVars>>

ConstructSphere ==
    Ready /\ \E c \in SphereCenters : Constructed(Sphere(c, One))

ConstructBox ==
    Ready /\ \E sm \in {DefaultSmoothing, Zero} :
        Constructed(Box(Origin, Vec3(Dec(4, 5), Dec(4, 5), Dec(4, 5)), sm))

ConstructPlane ==
    Ready /\ \E n \in PlaneNormals : Constructed(Plane(n, Zero))

ConstructCylinder ==
    Ready /\ \E s \in CylinderEnds, e \in CylinderEnds : Constructed(Cylinder(s, e, Dec(2, 5)))

ConstructUnionOp ==
    Ready /\ \E l \in Operands, r \in Operands : Constructed(UnionOp(l, r))

ConstructIntersectionOp ==
    Ready /\ \E l \in Operands, r \in Operands : Constructed(IntersectionOp(l, r))

ConstructDifferenceOp ==
    Ready /\ \E l \in Operands, r \in Operands : Constructed(DifferenceOp(l, r))

ConstructSmoothUnionOp ==
    Ready /\ \E l \in Operands, r \in Operands, k \in SmoothFactors :
        Constructed(SmoothUnionOp(l, r, k))

ConstructSmoothIntersectionOp ==
    Ready /\ \E l \in Operands, r \in Operands, k \in SmoothFactors :
        Constructed(SmoothIntersectionOp(l, r, k))

ConstructSmoothDifferenceOp ==
    Ready /\ \E l \in Operands, r \in Operands, k \in SmoothFactors :
        Constructed(SmoothDifferenceOp(l, r, k))

\* a call of one of the scene factories
CreateScene ==
    Ready /\ \E s \in FactoryScenes : Constructed(s)

Construct ==
    \/ ConstructSphere
    \/ ConstructBox
    \/ ConstructPlane
    \/ ConstructCylinder
    \/ ConstructUnionOp
    \/ ConstructIntersectionOp
    \/ ConstructDifferenceOp
    \/ ConstructSmoothUnionOp
    \/ ConstructSmoothIntersectionOp
    \/ ConstructSmoothDifferenceOp
    \/ CreateScene

(***************************************************************************)
(* Calls of the library on the object held                                 *)
(***************************************************************************)
RECURSIVE HasSmooth(_)
HasSmooth(n) ==
    \/ n.type \in SmoothTypes
    \/ IsBoolean(n) /\ (HasSmooth(n.left) \/ HasSmooth(n.right))

\* node->evaluate(p)
Evaluate ==
    /\ op = "held"
    /\ \E p \in Points :
        /\ arg' = p
        /\ val' = evaluate(obj, p)
        /\ childL' = IF IsBoolean(obj) THEN evaluate(obj.left, p) ELSE NoVal
        /\ childR' = IF IsBoolean(obj) THEN evaluate(obj.right, p) ELSE NoVal
    /\ op' = "evaluate"
    /\ evals' = <<>>
    /\ diff' = NoVec
    /\ grad' = NoVec
    /\ sval' = NoVal
    /\ UNCHANGED <<obj, rendererVars, marchVars, appVars, pixelVars>>

\* node->gradient(p). The differences over h = 1/HDen are modelled where the
\* six values are exact (FSqrt rounds the others to fewer digits than h has);
\* the perturbed values of a smooth blend exceed the model's integers
Gradient ==
    /\ op = "held"
    /\ ~HasSmooth(obj)
    /\ \E p \in Points :
        /\ \A q \in GradientPoints(p) : ExactAt(obj, q)
        /\ arg' = p
        /\ evals' = [q \in GradientPoints(p) |-> evaluate(obj, q)]
        /\ diff' = CentralDifferences(evals', p)
        /\ grad' = normalize(diff')
    /\ op' = "gradient"
    /\ val' = NoVal
    /\ childL' = NoVal
    /\ childR' = NoVal
    /\ sval' = NoVal
    /\ UNCHANGED <<obj, rendererVars, marchVars, appVars, pixelVars>>

\* v.normalize() on a vector v
Normalize ==
    /\ Ready
    /\ \E v \in Points :
        /\ arg' = v
        /\ grad' = normalize(v)
    /\ evals' = <<>>
    /\ diff' = NoVec
    /\ op' = "normalize"
    /\ val' = NoVal
    /\ childL' = NoVal
    /\ childR' = NoVal
    /\ sval' = NoVal
    /\ UNCHANGED <<obj, rendererVars, marchVars, appVars, pixelVars>>

\* the shader's smooth operation of the node's kind on the same two child
\* distances and the same k
ShaderSmoothOp ==
    /\ op = "evaluate"
    /\ obj.type \in SmoothTypes
    /\ sval' = CASE obj.type = "SmoothUnionOp" ->
                        smoothUnionOp(childL, childR, obj.k)
                 [] obj.type = "SmoothIntersectionOp" ->
                        smoothIntersectionOp(childL, childR, obj.k)
                 [] obj.type = "SmoothDifferenceOp" ->
                        smoothDifferenceOp(childL, childR, obj.k)
    /\ op' = "shader"
    /\ UNCHANGED <<obj, arg, val, childL, childR, evals, diff, grad, rendererVars, marchVars, appVars, pixelVars>>

\* the caller drops the result of its last call and keeps the object
Discard ==
    /\ ~Ready
    /\ op' = IF obj = NoNode THEN "none" ELSE "held"
    /\ arg' = NoVec
    /\ val' = NoVal
    /\ childL' = NoVal
    /\ childR' = NoVal
    /\ evals' = <<>>
    /\ diff' = NoVec
    /\ grad' = NoVec
    /\ sval' = NoVal
    /\ UNCHANGED <<obj, rendererVars, marchVars, appVars, pixelVars>>

InitEval == RendererInit /\ SurfaceInit /\ MarchIdle /\ AppIdle /\ PixelIdle

NextEval ==
    Construct \/ Evaluate \/ Gradient \/ Normalize \/ ShaderSmoothOp \/ Discard

SpecEval == InitEval /\ [][NextEval]_vars

(***************************************************************************)
(* rayMarch (fragment shader), one action per exit and per loop iteration  *)
(***************************************************************************)
\* the largest maxSteps a march is run with
MaxStepsBound == 3

\* what the uniforms hold after setRaymarchingParams(s, d, e)
MarchSteps == 0..MaxStepsBound

MarchDistances == {Dec(3, 1), Dec(50, 1)}

MarchEpsilons == {Dec(1, 1000), Dec(1, 2)}

\* the values sceneSDF(ro + depth * rd) returns along a ray: inside the
\* surface, on it, closer than either epsilon, between the two, and far
SceneDistances == {Dec(-1, 1), Zero, Dec(1, 2000), Dec(1, 4), Dec(1, 1), Dec(2, 1)}

\* float sceneSDF(vec3 p) of a scene text, the scene written as its tree
RECURSIVE sceneSDF(_, _)
sceneSDF(node, p) ==
    CASE node.type = "Sphere" -> sphereSDF(p, node.center, node.radius)
      [] node.type = "Box" -> boxSDF(p, node.center, node.dimensions)
      [] node.type = "Cylinder" -> cylinderSDF(p, node.start, node.end, node.radius)
      [] node.type = "UnionOp" ->
            unionOp(sceneSDF(node.left, p), sceneSDF(node.right, p))
      [] node.type = "IntersectionOp" ->
            intersectionOp(sceneSDF(node.left, p), sceneSDF(node.right, p))
      [] node.type = "DifferenceOp" ->
            differenceOp(sceneSDF(node.left, p), sceneSDF(node.right, p))
      [] node.type = "SmoothUnionOp" ->
            smoothUnionOp(sceneSDF(node.left, p), sceneSDF(node.right, p), node.k)
      [] node.type = "SmoothIntersectionOp" ->
            smoothIntersectionOp(sceneSDF(node.left, p), sceneSDF(node.right, p), node.k)
      [] node.type = "SmoothDifferenceOp" ->
            smoothDifferenceOp(sceneSDF(node.left, p), sceneSDF(node.right, p), node.k)

\* a scene text of which nothing is assumed
AnyNode == [type |-> "any"]

\* the floats that are no distances: what a scene text that divides by
\* zero returns
SpecialDistances == {NaN, PInf, NInf}

\* what sceneSDF(ro + depth * rd) can return: the value of the scene text
\* in use, or any of SceneDistances when the scene is left open
Sampled ==
    IF sdf = NoNode THEN SceneDistances
    ELSE IF sdf = AnyNode THEN SceneDistances \cup SpecialDistances
    ELSE {sceneSDF(sdf, VAdd(ro, VScale(rd, depth)))}

\* float rayMarch(vec3 ro, vec3 rd, out int steps): depth = 0, steps = 0, i = 0
RayMarchCall ==
    /\ pc = "idle"
    /\ pc' = "loop"
    /\ i' = 0
    /\ depth' = Zero
    /\ steps' = 0
    /\ dist' = NoVal
    /\ ret' = NoVal
    /\ hist' = <<>>
    /\ UNCHANGED <<rendererVars, surfaceVars, appVars, pixelVars>>

\* a hit that adds dist before returning: return depth + dist
RayMarchHit_addsDist ==
    /\ pc = "loop"
    /\ i < maxSteps
    /\ \E d \in Sampled :
        /\ FLt(d, epsilon)
        /\ dist' = d
        /\ hist' = Append(hist, d)
        /\ ret' = FAdd(depth, d)
    /\ steps' = i
    /\ pc' = "done"
    /\ UNCHANGED <<i, depth, rendererVars, surfaceVars, appVars, pixelVars>>

\* an iteration whose dist < epsilon: steps = i; return depth
RayMarchHit ==
    /\ pc = "loop"
    /\ i < maxSteps
    /\ \E d \in Sampled :
        /\ FLt(d, epsilon)
        /\ dist' = d
        /\ hist' = Append(hist, d)
    /\ steps' = i
    /\ ret' = depth
    /\ pc' = "done"
    /\ UNCHANGED <<i, depth, rendererVars, surfaceVars, appVars, pixelVars>>

\* a miss that returns the accumulated depth instead of maxDistance
RayMarchMiss_returnsDepth ==
    /\ pc = "loop"
    /\ i < maxSteps
    /\ \E d \in Sampled :
        /\ ~FLt(d, epsilon)
        /\ FGe(FAdd(depth, d), maxDistance)
        /\ dist' = d
        /\ hist' = Append(hist, d)
        /\ depth' = FAdd(depth, d)
        /\ ret' = FAdd(depth, d)
    /\ steps' = maxSteps
    /\ pc' = "done"
    /\ UNCHANGED <<i, rendererVars, surfaceVars, appVars, pixelVars>>

\* an iteration that adds dist and reaches maxDistance: steps = maxSteps;
\* return maxDistance
RayMarchMiss ==
    /\ pc = "loop"
    /\ i < maxSteps
    /\ \E d \in Sampled :
        /\ ~FLt(d, epsilon)
        /\ FGe(FAdd(depth, d), maxDistance)
        /\ dist' = d
        /\ hist' = Append(hist, d)
        /\ depth' = FAdd(depth, d)
    /\ steps' = maxSteps
    /\ ret' = maxDistance
    /\ pc' = "done"
    /\ UNCHANGED <<i, rendererVars, surfaceVars, appVars, pixelVars>>

\* an iteration that counts itself as taken: steps = i + 1
RayMarchStep_countsItself ==
    /\ pc = "loop"
    /\ i < maxSteps
    /\ \E d \in Sampled :
        /\ ~FLt(d, epsilon)
        /\ ~FGe(FAdd(depth, d), maxDistance)
        /\ dist' = d
        /\ hist' = Append(hist, d)
        /\ depth' = FAdd(depth, d)
    /\ steps' = i + 1
    /\ i' = i + 1
    /\ UNCHANGED <<pc, ret, rendererVars, surfaceVars, appVars, pixelVars>>

\* an iteration that goes on whether or not depth has reached maxDistance
RayMarchStep_noMissTest ==
    /\ pc = "loop"
    /\ i < maxSteps
    /\ \E d \in Sampled :
        /\ ~FLt(d, epsilon)
        /\ dist' = d
        /\ hist' = Append(hist, d)
        /\ depth' = FAdd(depth, d)
    /\ steps' = i
    /\ i' = i + 1
    /\ UNCHANGED <<pc, ret, rendererVars, surfaceVars, appVars, pixelVars>>

\* an iteration that goes on without counting: no i++
RayMarchStep_sameIndex ==
    /\ pc = "loop"
    /\ i < maxSteps
    /\ \E d \in Sampled :
        /\ ~FLt(d, epsilon)
        /\ ~FGe(FAdd(depth, d), maxDistance)
        /\ dist' = d
        /\ hist' = Append(hist, d)
        /\ depth' = FAdd(depth, d)
    /\ steps' = i
    /\ UNCHANGED <<i, pc, ret, rendererVars, surfaceVars, appVars, pixelVars>>

\* an iteration that adds dist and goes on: steps = i; i++
RayMarchStep ==
    /\ pc = "loop"
    /\ i < maxSteps
    /\ \E d \in Sampled :
        /\ ~FLt(d, epsilon)
        /\ ~FGe(FAdd(depth, d), maxDistance)
        /\ dist' = d
        /\ hist' = Append(hist, d)
        /\ depth' = FAdd(depth, d)
    /\ steps' = i
    /\ i' = i + 1
    /\ UNCHANGED <<pc, ret, rendererVars, surfaceVars, appVars, pixelVars>>

\* a fall-through that returns the accumulated depth
RayMarchExhausted_returnsDepth ==
    /\ pc = "loop"
    /\ ~(i < maxSteps)
    /\ ret' = depth
    /\ pc' = "done"
    /\ UNCHANGED <<i, depth, dist, steps, hist, rendererVars, surfaceVars, appVars, pixelVars>>

\* a fall-through that evaluates the scene once more before it returns
RayMarchExhausted_evaluatesAgain ==
    /\ pc = "loop"
    /\ ~(i < maxSteps)
    /\ \E d \in Sampled :
        /\ dist' = d
        /\ hist' = Append(hist, d)
    /\ ret' = maxDistance
    /\ pc' = "done"
    /\ UNCHANGED <<i, depth, steps, rendererVars, surfaceVars, appVars, pixelVars>>

\* the loop condition i < maxSteps fails: return maxDistance
RayMarchExhausted ==
    /\ pc = "loop"
    /\ ~(i < maxSteps)
    /\ ret' = maxDistance
    /\ pc' = "done"
    /\ UNCHANGED <<i, depth, dist, steps, hist, rendererVars, surfaceVars, appVars, pixelVars>>

\* the next fragment: main() calls rayMarch afresh
RayMarchReturn ==
    /\ pc = "done"
    /\ pc' = "idle"
    /\ i' = 0
    /\ depth' = NoVal
    /\ dist' = NoVal
    /\ steps' = 0
    /\ ret' = NoVal
    /\ hist' = <<>>
    /\ UNCHANGED <<rendererVars, surfaceVars, appVars, pixelVars>>

\* a renderer whose uniforms were set by setRaymarchingParams(s, d, e)
InitMarch ==
    /\ maxSteps \in MarchSteps
    /\ maxDistance \in MarchDistances
    /\ epsilon \in MarchEpsilons
    /\ SurfaceInit
    /\ MarchIdle
    /\ AppIdle
    /\ PixelIdle

NextMarch ==
    \/ RayMarchCall
    \/ RayMarchHit
    \/ RayMarchMiss
    \/ RayMarchStep
    \/ RayMarchExhausted
    \/ RayMarchReturn

SpecMarch == InitMarch /\ [][NextMarch]_vars

\* the uniforms besides those a caller is expected to set: zero and
\* negative maxDistance and epsilon
AnyDistances == MarchDistances \cup {Zero, Dec(-1, 1)}

AnyEpsilons == MarchEpsilons \cup {Zero, Dec(-1, 1000)}

\* a renderer with any uniforms and a scene text of which nothing is assumed
InitMarchAny ==
    /\ maxSteps \in MarchSteps
    /\ maxDistance \in AnyDistances
    /\ epsilon \in AnyEpsilons
    /\ SurfaceInit
    /\ MarchIdle
    /\ AppIdle
    /\ sdf = AnyNode
    /\ ro = NoVec
    /\ rd = NoVec
    /\ phase = "idle"
    /\ mainSteps = 0
    /\ mainDist = NoVal
    /\ lightDist = NoVal
    /\ lit = NoVal
    /\ shadowSteps = 0
    /\ shadow = NoVal
    /\ color = NoVal
    /\ sdfCalls = 0
    /\ pixels = 0
    /\ frameCalls = 0

\* every rayMarch call that is begun goes on: each GPU invocation runs
SpecMarchAny == InitMarchAny /\ [][NextMarch]_vars /\ WF_vars(NextMarch)

(***************************************************************************)
(* rayMarch: the properties of its three exits                             *)
(***************************************************************************)
\* the sum of a sequence of distances
RECURSIVE SumSeq(_)
SumSeq(s) == IF s = <<>> THEN Zero ELSE FAdd(SumSeq(SubSeq(s, 1, Len(s) - 1)), s[Len(s)])

\* the distances evaluated before the last one
Earlier == SubSeq(hist, 1, Len(hist) - 1)

\* rayMarch returned and the last distance it evaluated was below epsilon
ReturnedOnHit == pc = "done" /\ hist # <<>> /\ FLt(hist[Len(hist)], epsilon)

\* rayMarch returned after adding a distance that took depth to maxDistance
ReturnedOnMiss ==
    /\ pc = "done"
    /\ hist # <<>>
    /\ ~FLt(hist[Len(hist)], epsilon)
    /\ FGe(SumSeq(hist), maxDistance)

\* rayMarch returned after maxSteps iterations none of which hit or missed
ReturnedOnExhaustion ==
    /\ pc = "done"
    /\ Len(hist) = maxSteps
    /\ hist # <<>>
    /\ ~FLt(hist[Len(hist)], epsilon)
    /\ ~FGe(SumSeq(hist), maxDistance)

\* C1: when the distance evaluated at iteration i is below epsilon, the march
\* stops at once: it is the first such distance, the value returned is the
\* sum of the distances of the earlier iterations (the last distance is not
\* added), and steps = i, the index of that iteration (0 <= i < maxSteps).
C1_HitReturnsDepthAndIndex ==
    ReturnedOnHit =>
        /\ ret = SumSeq(Earlier)
        /\ steps = Len(hist) - 1
        /\ 0 <= steps /\ steps < maxSteps
        /\ \A j \in 1..(Len(hist) - 1) : ~FLt(hist[j], epsilon)

\* a hit at a later iteration, on a distance that is not zero
C1_Witness ==
    /\ ReturnedOnHit
    /\ Len(hist) >= 2
    /\ hist[Len(hist)] # Zero
    /\ ret # Zero

\* C2: when an iteration does not hit and depth + d >= maxDistance, the march
\* returns exactly maxDistance, not the accumulated depth, and steps =
\* maxSteps whatever the index of the iteration.
C2_MissReturnsMaxDistance ==
    ReturnedOnMiss => ret = maxDistance /\ steps = maxSteps

\* a miss before the last iteration whose depth went beyond maxDistance
C2_Witness ==
    /\ ReturnedOnMiss
    /\ Len(hist) < maxSteps
    /\ FLt(maxDistance, depth)

\* C3: for maxSteps >= 1, a march that runs all maxSteps iterations without
\* a hit and without reaching maxDistance returns maxDistance with steps =
\* maxSteps - 1.
C3_ExhaustionReportsLastIndex ==
    (maxSteps >= 1 /\ ReturnedOnExhaustion) =>
        /\ ret = maxDistance
        /\ steps = maxSteps - 1
        /\ FLt(depth, maxDistance)

\* every iteration of a march of several steps was run
C3_Witness == ReturnedOnExhaustion /\ maxSteps >= 2 /\ depth # Zero

\* C4: with maxSteps = 0 the march evaluates the scene distance not once and
\* returns at once, at depth 0, the value maxDistance that main() takes for
\* a miss (dist < maxDistance fails), with steps = 0.
C4_ZeroStepsMissesAtOnce ==
    maxSteps = 0 =>
        /\ hist = <<>>
        /\ pc = "done" => (ret = maxDistance /\ depth = Zero /\ steps = 0)
        /\ pc = "done" => ~FLt(ret, maxDistance)

\* a march with maxSteps = 0 has returned
C4_Witness == maxSteps = 0 /\ pc = "done" /\ ret = maxDistance

(***************************************************************************)
(* The renderer's configuration and the construction of nodes              *)
(***************************************************************************)
\* the arguments a caller passes to setRaymarchingParams: those of main()
\* (100, 50.0f, 0.001f), the constructor's defaults, and invalid ones
ParamSteps == {-1, 0, 1, 100}

ParamDistances == {Dec(50, 1), Dec(100, 1)}

ParamEpsilons == {Dec(-1, 1000), Zero, Dec(1, 1000)}

\* ImplicitRenderer::setRaymarchingParams(steps, distance, eps)
SetRaymarchingParams ==
    /\ \E s \in ParamSteps, d \in ParamDistances, e \in ParamEpsilons :
        /\ maxSteps' = s
        /\ maxDistance' = d
        /\ epsilon' = e
    /\ UNCHANGED <<surfaceVars, marchVars, appVars, pixelVars>>

Init == RendererInit /\ SurfaceInit /\ MarchIdle /\ AppIdle /\ PixelIdle

Next == SetRaymarchingParams \/ Construct

Spec == Init /\ [][Next]_vars

\* C5: invalid configuration is never stored: the renderer never holds
\* maxSteps <= 0 or epsilon <= 0, and no smooth operation node holds k <= 0.
C5_InvalidConfigurationRejected ==
    /\ maxSteps > 0
    /\ FLt(Zero, epsilon)
    /\ obj.type \in SmoothTypes => FLt(Zero, obj.k)

\* the renderer holds maxSteps <= 0 and epsilon <= 0 and the caller a
\* smooth node with k <= 0
C5_InvalidStored ==
    /\ maxSteps <= 0
    /\ ~FLt(Zero, epsilon)
    /\ obj.type \in SmoothTypes
    /\ ~FLt(Zero, obj.k)

(***************************************************************************)
(* The object model's evaluate                                             *)
(***************************************************************************)
\* the reference order, minimum, maximum and negation of finite values
RefLe(a, b) == a[1] * b[2] <= b[1] * a[2]

RefMin(a, b) == IF RefLe(a, b) THEN a ELSE b

RefMax(a, b) == IF RefLe(a, b) THEN b ELSE a

RefNeg(a) == <<-a[1], a[2]>>

\* the reference combination of a hard composite's children
RefHard(type, a, b) ==
    CASE type \in {"UnionOp", "SmoothUnionOp"} -> RefMin(a, b)
      [] type \in {"IntersectionOp", "SmoothIntersectionOp"} -> RefMax(a, b)
      [] type \in {"DifferenceOp", "SmoothDifferenceOp"} -> RefMax(a, RefNeg(b))

\* the same combination by the shader's unionOp / intersectionOp / differenceOp
ShaderHard(type, a, b) ==
    CASE type = "UnionOp" -> unionOp(a, b)
      [] type = "IntersectionOp" -> intersectionOp(a, b)
      [] type = "DifferenceOp" -> differenceOp(a, b)

\* a hard composite's value is the reference combination of its children's
\* values at the same point, and so is each hard composite below it
RECURSIVE HardExact(_, _)
HardExact(node, point) ==
    \/ ~IsBoolean(node)
    \/ /\ node.type \in HardTypes =>
            evaluate(node, point) =
                RefHard(node.type, evaluate(node.left, point), evaluate(node.right, point))
       /\ HardExact(node.left, point)
       /\ HardExact(node.right, point)

\* C6: for all children A, B and every point p, UnionOp evaluates to
\* min(A(p), B(p)), IntersectionOp to max(A(p), B(p)), DifferenceOp to
\* max(A(p), -B(p)), exactly, also when composites are nested; the shader's
\* unionOp, intersectionOp and differenceOp give the same values.
C6_HardCompositesExact ==
    (op = "evaluate" /\ IsBoolean(obj)) =>
        /\ childL = evaluate(obj.left, arg)
        /\ childR = evaluate(obj.right, arg)
        /\ HardExact(obj, arg)
        /\ obj.type \in HardTypes =>
            /\ val = RefHard(obj.type, childL, childR)
            /\ ShaderHard(obj.type, childL, childR) = val

\* a difference of a composite and a sphere evaluated where the two
\* children's values differ
C6_Witness ==
    /\ op = "evaluate"
    /\ obj.type = "DifferenceOp"
    /\ obj.left.type = "UnionOp"
    /\ childL # childR
    /\ childL # RefNeg(childR)
    /\ val = RefNeg(childR)

\* the second blend input of a smooth node: -right for the difference
BlendRight == IF obj.type = "SmoothDifferenceOp" THEN RefNeg(childR) ELSE childR

\* |dL - dR| of the two blend inputs
BlendDistance == FAbs(FSub(childL, BlendRight))

\* how far the smooth value lies from the hard one, on the side it must lie
BlendGap ==
    IF obj.type = "SmoothUnionOp"
    THEN FSub(RefHard(obj.type, childL, childR), val)
    ELSE FSub(val, RefHard(obj.type, childL, childR))

\* evaluate was called on a smooth node with k > 0
SmoothEvaluated == op \in {"evaluate", "shader"} /\ obj.type \in SmoothTypes /\ FLt(Zero, obj.k)

C8_ShaderSmoothDiffers ==
    (SmoothEvaluated /\ op = "shader" /\ childL = BlendRight) =>
        /\ sval # val
        /\ BlendGap = FDiv(obj.k, <<6, 1>>)
        /\ FAbs(FSub(sval, childL)) = FDiv(obj.k, <<4, 1>>)

\* both formulations were run on the root of the custom scene's kind, a
\* smooth union, with d1 = d2
C8_Witness ==
    /\ SmoothEvaluated /\ op = "shader"
    /\ obj.type = "SmoothUnionOp"
    /\ childL = childR
    /\ sval # val

\* C9: normalize of a zero-length vector returns it unchanged, and a
\* Cylinder whose start equals its end evaluates at every point p to
\* |p - start| - radius, a finite value.
C9_DegenerateGeometryDefined ==
    /\ (op = "normalize" /\ arg = Origin) => grad = arg
    /\ (op = "evaluate" /\ obj.type = "Cylinder" /\ obj.start = obj.end) =>
            /\ val = FSub(FSqrt(dot(VSub(arg, obj.start), VSub(arg, obj.start))), obj.radius)
            /\ IsFin(val)

\* a cylinder of zero length evaluated away from its axis
C9_Witness ==
    /\ op = "evaluate"
    /\ obj.type = "Cylinder"
    /\ obj.start = obj.end
    /\ arg[1] # Zero
    /\ IsFin(val)

\* the squared length of a vector is 1, up to the rounding of sqrt
ApproxUnit(v) ==
    /\ RefLe(One, dot(v, v))
    /\ RefLe(dot(v, v), <<5, 4>>)

\* the six points at distance h = 1/10000 from p along the axes
SixPoints(p) ==
    {<<FAdd(p[1], <<1, 10000>>), p[2], p[3]>>, <<FSub(p[1], <<1, 10000>>), p[2], p[3]>>,
     <<p[1], FAdd(p[2], <<1, 10000>>), p[3]>>, <<p[1], FSub(p[2], <<1, 10000>>), p[3]>>,
     <<p[1], p[2], FAdd(p[3], <<1, 10000>>)>>, <<p[1], p[2], FSub(p[3], <<1, 10000>>)>>}

\* gradient took the central differences of the node's own evaluate at the
\* six points p +/- h
CentralDifferencesTaken ==
    /\ DOMAIN evals = SixPoints(arg)
    /\ Cardinality(DOMAIN evals) = 6
    /\ \A q \in DOMAIN evals : evals[q] = evaluate(obj, q)
    /\ diff[1] = FSub(evals[<<FAdd(arg[1], <<1, 10000>>), arg[2], arg[3]>>],
                      evals[<<FSub(arg[1], <<1, 10000>>), arg[2], arg[3]>>])
    /\ diff[2] = FSub(evals[<<arg[1], FAdd(arg[2], <<1, 10000>>), arg[3]>>],
                      evals[<<arg[1], FSub(arg[2], <<1, 10000>>), arg[3]>>])
    /\ diff[3] = FSub(evals[<<arg[1], arg[2], FAdd(arg[3], <<1, 10000>>)>>],
                      evals[<<arg[1], arg[2], FSub(arg[3], <<1, 10000>>)>>])

\* C10: for every node and every point p, gradient(p) returns a vector of
\* unit length, the normalized central differences of the node's own
\* evaluate at p +/- h on each axis (six evaluations, h = 1e-4).
C10_GradientIsUnitNormal ==
    op = "gradient" =>
        /\ CentralDifferencesTaken
        /\ ApproxUnit(grad)
        /\ \A a \in 1..3 : Sgn(grad[a][1]) = Sgn(diff[a][1])

\* gradient returned the zero vector: all six values were equal in pairs
C10_ZeroGradient ==
    /\ op = "gradient"
    /\ CentralDifferencesTaken
    /\ diff = Origin
    /\ grad = Origin

(***************************************************************************)
(* The application: the node heap, the key events, main(), run(),          *)
(* render(), setScene() and setupShaders()                                 *)
(***************************************************************************)
\* how many key events the user makes
MaxKeys == 2

\* std::make_shared: the new object's address (the lowest one not in use)
LowestFree(h) ==
    CHOOSE a \in 1..(Cardinality(DOMAIN h) + 1) :
        a \notin DOMAIN h /\ \A b \in 1..(a - 1) : b \in DOMAIN h

\* a factory that hands out an existing node when an equal one is alive
RECURSIVE Alloc_shared(_, _)
Alloc_shared(h, tree) ==
    IF IsBoolean(tree)
    THEN LET l == Alloc_shared(h, tree.left)
             r == Alloc_shared(l.h, tree.right)
             a == LowestFree(r.h)
         IN  [h |-> (a :> [tree EXCEPT !.left = l.root, !.right = r.root]) @@ r.h,
              root |-> a]
    ELSE IF \E b \in DOMAIN h : h[b] = tree
    THEN [h |-> h, root |-> CHOOSE b \in DOMAIN h : h[b] = tree]
    ELSE LET a == LowestFree(h)
         IN  [h |-> (a :> tree) @@ h, root |-> a]

\* the nodes of a factory's tree made one by one with make_shared, the
\* children before the operation that holds their pointers
RECURSIVE Alloc(_, _)
Alloc(h, tree) ==
    IF IsBoolean(tree)
    THEN LET l == Alloc(h, tree.left)
             r == Alloc(l.h, tree.right)
             a == LowestFree(r.h)
         IN  [h |-> (a :> [tree EXCEPT !.left = l.root, !.right = r.root]) @@ r.h,
              root |-> a]
    ELSE LET a == LowestFree(h)
         IN  [h |-> (a :> tree) @@ h, root |-> a]

\* the addresses of the nodes of the tree whose root is at a
RECURSIVE Addrs(_, _)
Addrs(h, a) ==
    IF a = 0 \/ a \notin DOMAIN h THEN {}
    ELSE IF IsBoolean(h[a]) THEN {a} \cup Addrs(h, h[a].left) \cup Addrs(h, h[a].right)
    ELSE {a}

\* the tree whose root is at a, its child pointers followed
RECURSIVE Tree(_, _)
Tree(h, a) ==
    IF a = 0 THEN NoNode
    ELSE IF IsBoolean(h[a])
    THEN [h[a] EXCEPT !.left = Tree(h, h[a].left), !.right = Tree(h, h[a].right)]
    ELSE h[a]

\* the pointers the frames of a stack hold
FrameArgs(st) == {st[n].arg : n \in DOMAIN st}

\* std::shared_ptr: a node lives as long as a pointer leads to it
Collect(h, roots) ==
    LET keep == UNION {Addrs(h, a) : a \in roots}
    IN  [a \in keep |-> h[a]]

Frame(label, a) == [pc |-> label, arg |-> a]

Top == stack[Len(stack)]

\* the stack with its innermost frame replaced
Goto(label) == [stack EXCEPT ![Len(stack)] = Frame(label, Top.arg)]

Pop == SubSeq(stack, 1, Len(stack) - 1)

At(label) == stack # <<>> /\ Top.pc = label

\* the keys GLFW reports: the scene keys, ESCAPE and one unbound key
SceneKeys == {"1", "2", "3", "4", "5", "C"}

KeyEvents ==
    {[key |-> k, action |-> "PRESS"] : k \in SceneKeys \cup {"ESCAPE", "X"}}
        \cup {[key |-> "1", action |-> "RELEASE"], [key |-> "2", action |-> "REPEAT"]}

\* the events of the window: its key events and the request to close it
WindowEvents == KeyEvents \cup {[key |-> "", action |-> "CLOSE"]}

\* a switchScene whose cases are one index off
SceneOfKey_shifted(k) ==
    CASE k = "1" -> createCSGUnionScene
      [] k = "2" -> createCSGIntersectionScene
      [] k = "3" -> createCSGDifferenceScene
      [] k = "4" -> createComplexCSGScene
      [] k = "5" -> createSphereScene
      [] k = "C" -> createCustomScene

\* keyCallback's switch: the local sceneIndex, -1 where no case sets it
sceneIndex(k) ==
    CASE k = "1" -> 0
      [] k = "2" -> 1
      [] k = "3" -> 2
      [] k = "4" -> 3
      [] k = "5" -> 4
      [] OTHER -> -1

\* switchScene: the tree it passes to setScene; its default case only
\* prints "Unknown scene index" and calls nothing (NoNode)
switchScene(index) ==
    CASE index = 0 -> createSphereScene
      [] index = 1 -> createCSGUnionScene
      [] index = 2 -> createCSGIntersectionScene
      [] index = 3 -> createCSGDifferenceScene
      [] index = 4 -> createComplexCSGScene
      [] OTHER -> NoNode

\* the tree a scene key has setScene called with: key C in keyCallback
\* itself, the number keys through switchScene
SceneOfKey(k) ==
    IF k = "C" THEN createCustomScene ELSE switchScene(sceneIndex(k))

\* a selection that looks at the root only
SceneShader_rootOnly(h, a) ==
    IF a = 0 THEN "float sceneSDF(vec3 p) { return 1000.0; }"
    ELSE IF h[a].type = "Sphere" THEN "scene_sphere.frag"
    ELSE IF h[a].type = "UnionOp" THEN "scene_union.frag"
    ELSE IF h[a].type = "IntersectionOp" THEN "scene_intersection.frag"
    ELSE IF h[a].type = "DifferenceOp" THEN "scene_difference.frag"
    ELSE "scene_custom.frag"

\* setupShaders: the scene text chosen from the dynamic type of the root
SceneShader(h, a) ==
    IF a = 0 THEN "float sceneSDF(vec3 p) { return 1000.0; }"
    ELSE IF h[a].type = "Sphere" THEN "scene_sphere.frag"
    ELSE IF h[a].type = "UnionOp" THEN "scene_union.frag"
    ELSE IF h[a].type = "IntersectionOp" THEN "scene_intersection.frag"
    ELSE IF h[a].type = "DifferenceOp"
    THEN IF h[h[a].left].type = "Sphere" /\ h[h[a].right].type = "Box"
         THEN "scene_difference.frag"
         ELSE "scene_complex.frag"
    ELSE "scene_custom.frag"

\* glUseProgram(id): an unlinked program is refused and the current one kept
UseProgram(id) ==
    IF id = 0 THEN 0
    ELSE IF programs[id].linked THEN id
    ELSE current

\* what the GL driver makes of the shader sources
ShaderOutcomes == {"ok", "compile error", "link error"}

\* the texts a driver is taken to reject: the one initialize builds, one
\* of a factory scene and the one of the custom scene
FaultTexts ==
    {"float sceneSDF(vec3 p) { return 1000.0; }", "scene_union.frag",
     "scene_custom.frag"}

\* the GL driver builds every text, or rejects one of them in one way
Faults ==
    {NoFault} \cup [text : FaultTexts, how : ShaderOutcomes \ {"ok"}]

\* glCompileShader and glLinkProgram give the same result for the same text
Outcome(text) ==
    IF faulty.text = text THEN faulty.how ELSE "ok"

\* setupShaders with the given outcome: the vertex and the fragment shader
\* are created, and glDeleteShader is reached for both only when the
\* program has linked; a compile error (of the fragment shader, which
\* holds the scene text) returns before a program is created; otherwise
\* programID is a new program object and the old id is overwritten
setupShaders(outcome) ==
    /\ shaders' = shaders \o <<[type |-> "vertex", deleted |-> outcome = "ok"],
                               [type |-> "fragment", deleted |-> outcome = "ok"]>>
    /\ IF outcome = "compile error"
       THEN UNCHANGED <<programID, programs>>
       ELSE /\ programs' = Append(programs,
                   [text |-> SceneShader(heap, scene), linked |-> outcome = "ok"])
            /\ programID' = Len(programs) + 1

libVars == <<rendererVars, surfaceVars, marchVars, pixelVars>>

\* main's global and result, and the GL objects besides the programs
hostVars == <<g_renderer, returned, shaders, deletedPrograms>>

\* the user presses or releases a key of the window; glfwPollEvents is
\* where GLFW takes the event from the system's queue
UserKey ==
    /\ At("poll")
    /\ pressed < MaxKeys
    /\ \E e \in WindowEvents :
        /\ keys' = Append(keys, e)
        /\ lastKey' = IF e.action = "PRESS" /\ e.key \in SceneKeys THEN e.key ELSE lastKey
    /\ pressed' = pressed + 1
    /\ UNCHANGED <<heap, scene, programID, programs, current, stack, shouldClose,
                   used, drawn, faulty, hostVars, libVars>>

\* main: initialize() (its setupShaders runs with no scene), the key
\* callback, setCamera, setLight and setRaymarchingParams(100, 50, 0.001);
\* a failed initialize ends main
MainInitialize ==
    /\ At("main:initialize")
    /\ \E outcome \in {Outcome(SceneShader(heap, scene))} :
        /\ setupShaders(outcome)
        /\ stack' = <<Frame(IF outcome = "ok" THEN "main:setScene" ELSE "main:failed", 0)>>
        /\ maxDistance' = IF outcome = "ok" THEN Rat(50, 1) ELSE maxDistance
    /\ UNCHANGED <<heap, scene, current, keys, shouldClose, pressed, lastKey,
                   used, drawn, faulty, g_renderer, returned, deletedPrograms,
                   maxSteps, epsilon, surfaceVars, marchVars, pixelVars>>

\* main: renderer.setScene(Renderer::createCSGIntersectionScene())
MainSetScene ==
    /\ At("main:setScene")
    /\ LET made == Alloc(heap, createCSGIntersectionScene)
       IN  /\ heap' = made.h
           /\ stack' = <<Frame("main:run", 0), Frame("setScene:assign", made.root)>>
    /\ UNCHANGED <<scene, programID, programs, current, keys, shouldClose, pressed,
                   lastKey, used, drawn, faulty, hostVars, libVars>>

\* main: renderer.run()
MainRun ==
    /\ At("main:run")
    /\ stack' = <<Frame("main:exit", 0), Frame("run:test", 0)>>
    /\ UNCHANGED <<heap, scene, programID, programs, current, keys, shouldClose,
                   pressed, lastKey, used, drawn, faulty, hostVars, libVars>>

\* ~ImplicitRenderer: if (programID) glDeleteProgram(programID)
Destroyed ==
    IF programID = 0 THEN deletedPrograms ELSE deletedPrograms \cup {programID}

\* main after a failed initialize: return -1; the renderer is destroyed
MainFailed ==
    /\ At("main:failed")
    /\ stack' = <<Frame("exited", 0)>>
    /\ returned' = <<-1>>
    /\ scene' = 0
    /\ heap' = Collect(heap, {})
    /\ deletedPrograms' = Destroyed
    /\ UNCHANGED <<programID, programs, current, keys, shouldClose, pressed,
                   lastKey, used, drawn, faulty, g_renderer, shaders, libVars>>

\* main after run: g_renderer = nullptr; return 0; the renderer is
\* destroyed and its scene pointer released
MainExit ==
    /\ At("main:exit")
    /\ stack' = <<Frame("exited", 0)>>
    /\ g_renderer' = FALSE
    /\ returned' = <<0>>
    /\ scene' = 0
    /\ heap' = Collect(heap, {})
    /\ deletedPrograms' = Destroyed
    /\ UNCHANGED <<programID, programs, current, keys, shouldClose, pressed,
                   lastKey, used, drawn, faulty, shaders, libVars>>

\* a run whose loop does not test the close flag
RunTest_forever ==
    /\ At("run:test")
    /\ stack' = Goto("run:poll")
    /\ UNCHANGED <<heap, scene, programID, programs, current, keys, shouldClose,
                   pressed, lastKey, used, drawn, faulty, hostVars, libVars>>

\* run: while (!glfwWindowShouldClose(window))
RunTest ==
    /\ At("run:test")
    /\ stack' = IF shouldClose THEN Pop ELSE Goto("run:poll")
    /\ UNCHANGED <<heap, scene, programID, programs, current, keys, shouldClose,
                   pressed, lastKey, used, drawn, faulty, hostVars, libVars>>

\* run: glfwPollEvents()
RunPoll ==
    /\ At("run:poll")
    /\ stack' = Append(Goto("run:use"), Frame("poll", 0))
    /\ UNCHANGED <<heap, scene, programID, programs, current, keys, shouldClose,
                   pressed, lastKey, used, drawn, faulty, hostVars, libVars>>

\* run: the camera moves; glUseProgram(programID) and the camera uniform
RunUse ==
    /\ At("run:use")
    /\ current' = UseProgram(programID)
    /\ stack' = Goto("run:render")
    /\ UNCHANGED <<heap, scene, programID, programs, keys, shouldClose, pressed,
                   lastKey, used, drawn, faulty, hostVars, libVars>>

\* run: render()
RunRender ==
    /\ At("run:render")
    /\ stack' = Append(Goto("run:test"), Frame("render:use", 0))
    /\ UNCHANGED <<heap, scene, programID, programs, current, keys, shouldClose,
                   pressed, lastKey, used, drawn, faulty, hostVars, libVars>>

\* a render that polls the events between glUseProgram and the draw call
RenderUse_thenPoll ==
    /\ At("render:use")
    /\ current' = UseProgram(programID)
    /\ used' = <<programID, scene>>
    /\ stack' = Append(Goto("render:draw"), Frame("poll", 0))
    /\ UNCHANGED <<heap, scene, programID, programs, keys, shouldClose, pressed,
                   lastKey, drawn, faulty, hostVars, libVars>>

\* render: glClear and glUseProgram(programID)
RenderUse ==
    /\ At("render:use")
    /\ current' = UseProgram(programID)
    /\ used' = <<programID, scene>>
    /\ stack' = Goto("render:draw")
    /\ UNCHANGED <<heap, scene, programID, programs, keys, shouldClose, pressed,
                   lastKey, drawn, faulty, hostVars, libVars>>

\* render: the uniforms, glDrawArrays and glfwSwapBuffers
RenderDraw ==
    /\ At("render:draw")
    /\ drawn' = <<current, scene>>
    /\ stack' = Goto("render:poll")
    /\ UNCHANGED <<heap, scene, programID, programs, current, keys, shouldClose,
                   pressed, lastKey, used, faulty, hostVars, libVars>>

\* render: glfwPollEvents()
RenderPoll ==
    /\ At("render:poll")
    /\ stack' = Append(Goto("render:return"), Frame("poll", 0))
    /\ UNCHANGED <<heap, scene, programID, programs, current, keys, shouldClose,
                   pressed, lastKey, used, drawn, faulty, hostVars, libVars>>

RenderReturn ==
    /\ At("render:return")
    /\ stack' = Pop
    /\ UNCHANGED <<heap, scene, programID, programs, current, keys, shouldClose,
                   pressed, lastKey, used, drawn, faulty, hostVars, libVars>>

\* a glfwPollEvents that was called from inside the key callback
Nested == \E n \in 1..(Len(stack) - 1) : stack[n].pc = "poll"

\* keyCallback for a scene key: the factory makes the tree, and
\* switchScene (keys 1 to 5) or keyCallback itself (key C) calls setScene
KeyCallbackScene ==
    /\ At("poll")
    /\ keys # <<>>
    /\ g_renderer
    /\ Head(keys).action = "PRESS"
    /\ Head(keys).key \in SceneKeys
    /\ keys' = Tail(keys)
    /\ LET made == Alloc(heap, SceneOfKey(Head(keys).key))
       IN  /\ heap' = made.h
           /\ stack' = Append(stack, Frame("setScene:assign", made.root))
    /\ UNCHANGED <<scene, programID, programs, current, shouldClose, pressed,
                   lastKey, used, drawn, faulty, hostVars, libVars>>

\* keyCallback for ESCAPE: glfwSetWindowShouldClose(window, GLFW_TRUE)
KeyCallbackEscape ==
    /\ At("poll")
    /\ keys # <<>>
    /\ g_renderer
    /\ Head(keys).action = "PRESS"
    /\ Head(keys).key = "ESCAPE"
    /\ keys' = Tail(keys)
    /\ shouldClose' = TRUE
    /\ UNCHANGED <<heap, scene, programID, programs, current, stack, pressed,
                   lastKey, used, drawn, faulty, hostVars, libVars>>

\* the user asks to close the window: GLFW sets the close flag itself
\* (no close callback is installed)
WindowCloseRequest ==
    /\ At("poll")
    /\ keys # <<>>
    /\ Head(keys).action = "CLOSE"
    /\ keys' = Tail(keys)
    /\ shouldClose' = TRUE
    /\ UNCHANGED <<heap, scene, programID, programs, current, stack, pressed,
                   lastKey, used, drawn, faulty, hostVars, libVars>>

\* a keyCallback that does not test the action: the release or repeat of
\* a scene key selects its scene too
KeyCallbackIgnored_anyAction ==
    /\ At("poll")
    /\ keys # <<>>
    /\ \/ Head(keys).action \in {"RELEASE", "REPEAT"}
       \/ /\ Head(keys).action = "PRESS"
          /\ ~g_renderer \/ Head(keys).key \notin SceneKeys \cup {"ESCAPE"}
    /\ keys' = Tail(keys)
    /\ IF Head(keys).key \in SceneKeys
       THEN LET made == Alloc(heap, SceneOfKey(Head(keys).key))
            IN  /\ heap' = made.h
                /\ stack' = Append(stack, Frame("setScene:assign", made.root))
       ELSE UNCHANGED <<heap, stack>>
    /\ UNCHANGED <<scene, programID, programs, current, shouldClose, pressed,
                   lastKey, used, drawn, faulty, hostVars, libVars>>

\* keyCallback for a release or a repeat, for a key without a case, or
\* while g_renderer is null
KeyCallbackIgnored ==
    /\ At("poll")
    /\ keys # <<>>
    /\ \/ Head(keys).action \in {"RELEASE", "REPEAT"}
       \/ /\ Head(keys).action = "PRESS"
          /\ ~g_renderer \/ Head(keys).key \notin SceneKeys \cup {"ESCAPE"}
    /\ keys' = Tail(keys)
    /\ UNCHANGED <<heap, scene, programID, programs, current, stack, shouldClose,
                   pressed, lastKey, used, drawn, faulty, hostVars, libVars>>

\* glfwPollEvents returns when no event is pending; GLFW forbids calling it
\* from a callback, so a nested call may also return without dispatching
PollReturn ==
    /\ At("poll")
    /\ keys = <<>> \/ Nested
    /\ stack' = Pop
    /\ UNCHANGED <<heap, scene, programID, programs, current, keys, shouldClose,
                   pressed, lastKey, used, drawn, faulty, hostVars, libVars>>

\* a setScene that edits the existing root node instead of replacing the pointer
SetSceneAssign_inPlace ==
    /\ At("setScene:assign")
    /\ IF scene = 0
       THEN scene' = Top.arg /\ heap' = heap
       ELSE scene' = scene /\ heap' = [heap EXCEPT ![scene] = heap[Top.arg]]
    /\ stack' = Goto("setScene:shaders")
    /\ UNCHANGED <<programID, programs, current, keys, shouldClose, pressed,
                   lastKey, used, drawn, faulty, hostVars, libVars>>

\* setScene: scene = newScene; the tree no pointer leads to any more is freed
SetSceneAssign ==
    /\ At("setScene:assign")
    /\ scene' = Top.arg
    /\ heap' = Collect(heap, {scene'} \cup FrameArgs(stack))
    /\ stack' = Goto("setScene:shaders")
    /\ UNCHANGED <<programID, programs, current, keys, shouldClose, pressed,
                   lastKey, used, drawn, faulty, hostVars, libVars>>

\* a setScene that returns at once when setupShaders reports a failure
SetSceneShaders_checked ==
    /\ At("setScene:shaders")
    /\ setupShaders(Outcome(SceneShader(heap, scene)))
    /\ stack' = Goto(IF Outcome(SceneShader(heap, scene)) = "ok"
                     THEN "setScene:render" ELSE "setScene:return")
    /\ UNCHANGED <<heap, scene, current, keys, shouldClose, pressed, lastKey,
                   used, drawn, faulty, g_renderer, returned, deletedPrograms,
                   libVars>>

\* setScene: setupShaders(), its result ignored
SetSceneShaders ==
    /\ At("setScene:shaders")
    /\ setupShaders(Outcome(SceneShader(heap, scene)))
    /\ stack' = Goto("setScene:render")
    /\ UNCHANGED <<heap, scene, current, keys, shouldClose, pressed, lastKey,
                   used, drawn, faulty, g_renderer, returned, deletedPrograms,
                   libVars>>

\* setScene: render()
SetSceneRender ==
    /\ At("setScene:render")
    /\ stack' = Append(Goto("setScene:return"), Frame("render:use", 0))
    /\ UNCHANGED <<heap, scene, programID, programs, current, keys, shouldClose,
                   pressed, lastKey, used, drawn, faulty, hostVars, libVars>>

\* setScene returns: the parameter newScene is destroyed
SetSceneReturn ==
    /\ At("setScene:return")
    /\ stack' = Pop
    /\ heap' = Collect(heap, {scene} \cup FrameArgs(stack'))
    /\ UNCHANGED <<scene, programID, programs, current, keys, shouldClose, pressed,
                   lastKey, used, drawn, faulty, hostVars, libVars>>

InitApp ==
    /\ RendererInit
    /\ SurfaceInit
    /\ MarchIdle
    /\ heap = <<>>
    /\ scene = 0
    /\ programID = 0
    /\ programs = <<>>
    /\ current = 0
    /\ stack = <<Frame("main:initialize", 0)>>
    /\ keys = <<>>
    /\ shouldClose = FALSE
    /\ pressed = 0
    /\ lastKey = ""
    /\ used = <<0, 0>>
    /\ drawn = <<0, 0>>
    /\ faulty \in Faults
    /\ g_renderer = TRUE
    /\ returned = <<>>
    /\ shaders = <<>>
    /\ deletedPrograms = {}
    /\ PixelIdle

NextApp ==
    \/ UserKey
    \/ MainInitialize
    \/ MainSetScene
    \/ MainRun
    \/ MainFailed
    \/ MainExit
    \/ RunTest
    \/ RunPoll
    \/ RunUse
    \/ RunRender
    \/ RenderUse
    \/ RenderDraw
    \/ RenderPoll
    \/ RenderReturn
    \/ KeyCallbackScene
    \/ KeyCallbackEscape
    \/ KeyCallbackIgnored
    \/ WindowCloseRequest
    \/ PollReturn
    \/ SetSceneAssign
    \/ SetSceneShaders
    \/ SetSceneRender
    \/ SetSceneReturn

SpecApp == InitApp /\ [][NextApp]_vars

(***************************************************************************)
(* C11: the scene tree is immutable                                        *)
(***************************************************************************)
\* the pointers to trees the program holds: the renderer's and setScene's
Roots == ({scene} \cup FrameArgs(stack)) \ {0}

ProbePoints == {Origin, Vec3(One, Zero, Zero)}

\* C11: no step of main, run, render, setScene or the key callback changes
\* a field or a child pointer of a node that stays alive; evaluate gives
\* the same value at the same point before and after every step; the
\* renderer's root pointer changes only in setScene's assignment (and when
\* the renderer is destroyed), and that assignment leaves the old tree as
\* it was
C11_TreeImmutable ==
    [][/\ \A a \in DOMAIN heap \cap DOMAIN heap' : heap'[a] = heap[a]
       /\ \/ heap' = heap
          \/ \A a \in Roots \cap Roots' : \A p \in ProbePoints :
                 evaluate(Tree(heap', a), p) = evaluate(Tree(heap, a), p)
       /\ scene' # scene => At("setScene:assign") \/ At("main:exit")
       /\ ( At("setScene:assign") /\ scene \in DOMAIN heap' )
              => Tree(heap', scene) = Tree(heap, scene)]_vars

\* a scene switch has happened while a setScene call still holds the tree
\* that was the scene before
C11_Witness ==
    \E n \in DOMAIN stack :
        /\ stack[n].pc = "setScene:return"
        /\ stack[n].arg \in DOMAIN heap
        /\ scene \in DOMAIN heap
        /\ stack[n].arg # scene
        /\ Tree(heap, stack[n].arg) # Tree(heap, scene)

(***************************************************************************)
(* C12: the scene factories                                                *)
(***************************************************************************)
\* a factory has just returned: its tree is the argument of a new setScene call
FactoryReturns ==
    /\ Len(stack') > Len(stack)
    /\ stack'[Len(stack')].pc = "setScene:assign"

\* the scene the factory called in this step is written to build
Blueprint ==
    IF At("main:setScene") THEN createCSGIntersectionScene
    ELSE SceneOfKey(Head(keys).key)

\* C12: whatever scenes were switched before, the tree a factory returns has
\* the shape and the parameters written in the factory, its nodes are all
\* new (none is a node of a tree made before), and the call changes neither
\* an existing node nor the renderer
C12_FactoriesDeterministic ==
    [][FactoryReturns =>
          LET made == stack'[Len(stack')].arg
          IN  /\ Tree(heap', made) = Blueprint
              /\ Addrs(heap', made) \cap DOMAIN heap = {}
              /\ DOMAIN heap' = DOMAIN heap \cup Addrs(heap', made)
              /\ \A a \in DOMAIN heap : heap'[a] = heap[a]
              /\ UNCHANGED <<scene, programID, programs, current, rendererVars>>]_vars

\* the factory of the scene on display was called again: two trees of the
\* same shape and parameters are alive, without a node in common
C12_Witness ==
    /\ At("setScene:assign")
    /\ scene \in DOMAIN heap
    /\ Top.arg # scene
    /\ Tree(heap, Top.arg) = Tree(heap, scene)
    /\ Addrs(heap, Top.arg) \cap Addrs(heap, scene) = {}
    /\ pressed = MaxKeys

(***************************************************************************)
(* C13: the key bindings                                                   *)
(***************************************************************************)
\* the node types of a tree, nested as the tree is
RECURSIVE Shape(_)
Shape(n) ==
    IF IsBoolean(n) THEN <<n.type, Shape(n.left), Shape(n.right)>> ELSE n.type

\* the scene each key is documented to show
DocumentedScene(k) ==
    CASE k = "1" -> createSphereScene
      [] k = "2" -> createCSGUnionScene
      [] k = "3" -> createCSGIntersectionScene
      [] k = "4" -> createCSGDifferenceScene
      [] k = "5" -> createComplexCSGScene
      [] k = "C" -> createCustomScene

DocumentedShape(k, sh) ==
    CASE k = "1" -> sh = "Sphere"
      [] k = "2" -> sh[1] = "UnionOp"
      [] k = "3" -> sh[1] = "IntersectionOp"
      [] k = "4" -> sh = <<"DifferenceOp", "Sphere", "Box">>
      [] k = "5" -> sh = <<"DifferenceOp", <<"UnionOp", "Sphere", "Sphere">>, "Box">>
      [] k = "C" -> sh[1] \in SmoothTypes

\* every key event made so far has been handled by the key callback and
\* the setScene it called has assigned the scene
AllKeysHandled ==
    /\ keys = <<>>
    /\ \A n \in DOMAIN stack : stack[n].pc # "setScene:assign"
    /\ ~At("exited")

\* C13: once the key events made so far are handled, the renderer's scene
\* is the scene of the last scene key pressed (1 sphere, 2 union,
\* 3 intersection, 4 sphere minus box, 5 union of two spheres minus box,
\* C the custom smooth scene), whatever keys came before it and whatever
\* call was running when it was handled
C13_LastKeySelectsScene ==
    ( lastKey # "" /\ AllKeysHandled )
        => /\ Tree(heap, scene) = DocumentedScene(lastKey)
           /\ DocumentedShape(lastKey, Shape(Tree(heap, scene)))

\* two scene keys were pressed, the second handled by the glfwPollEvents
\* inside the render of the first one's setScene
C13_Witness ==
    /\ lastKey # ""
    /\ AllKeysHandled
    /\ pressed = MaxKeys
    /\ Len(SelectSeq(stack, LAMBDA f : f.pc = "setScene:return")) > 1
    /\ Tree(heap, scene) # createCSGIntersectionScene

(***************************************************************************)
(* C14: a frame is drawn with one scene's program                          *)
(***************************************************************************)
\* C14: when render reaches its draw call, the renderer's program and scene
\* are the ones its glUseProgram was given, in every interleaving of key
\* events with run and render and however deep setScene was re-entered from
\* render's glfwPollEvents; the GL program in use is that program (or, when
\* it failed to link, the program in use before), and no frame below the
\* running one is between its glUseProgram and its draw call
C14_FrameAtomic ==
    /\ At("render:draw") =>
           /\ used = <<programID, scene>>
           /\ programs[programID].linked => current = programID
    /\ \A n \in 1..(Len(stack) - 1) : stack[n].pc \notin {"render:use", "render:draw"}

\* a frame is about to be drawn by a render called from a setScene that
\* the key callback called from the glfwPollEvents of another render
C14_Witness ==
    /\ At("render:draw")
    /\ used = <<programID, scene>>
    /\ \E n \in DOMAIN stack : stack[n].pc = "render:return"
    /\ Tree(heap, scene) # createCSGIntersectionScene

(***************************************************************************)
(* C20: the scene shader setupShaders selects                              *)
(***************************************************************************)
\* the text stated for a tree: by its root, and for a difference by the
\* types of its two children
StatedText(tree) ==
    CASE tree = NoNode -> "float sceneSDF(vec3 p) { return 1000.0; }"
      [] tree # NoNode /\ tree.type = "Sphere" -> "scene_sphere.frag"
      [] tree # NoNode /\ tree.type = "UnionOp" -> "scene_union.frag"
      [] tree # NoNode /\ tree.type = "IntersectionOp" -> "scene_intersection.frag"
      [] tree # NoNode /\ tree.type = "DifferenceOp"
            /\ Shape(tree) = <<"DifferenceOp", "Sphere", "Box">> -> "scene_difference.frag"
      [] tree # NoNode /\ tree.type = "DifferenceOp"
            /\ Shape(tree) # <<"DifferenceOp", "Sphere", "Box">> -> "scene_complex.frag"
      [] OTHER -> "scene_custom.frag"

\* the texts of the GL programs made so far
Texts == {programs[n].text : n \in DOMAIN programs}

\* C20: every program setupShaders creates is built from the text stated
\* for the root the renderer has at that moment (no scene: the constant
\* 1000.0; Sphere, UnionOp, IntersectionOp: their own text; DifferenceOp of
\* a Sphere and a Box: scene_difference, any other DifferenceOp:
\* scene_complex; any other root: scene_custom), and the six factory scenes
\* get six different texts
C20_ShaderByRootType ==
    [][Len(programs') > Len(programs) =>
          /\ programs'[Len(programs')].text = StatedText(Tree(heap, scene))
          /\ Cardinality({StatedText(f) : f \in FactoryScenes}) = Cardinality(FactoryScenes)
          /\ \A f \in FactoryScenes :
                 Tree(heap, scene) = f => programs'[Len(programs')].text = StatedText(f)]_vars

\* programs were built for no scene, for the complex scene and for the
\* sphere-minus-box scene
C20_Witness ==
    /\ "float sceneSDF(vec3 p) { return 1000.0; }" \in Texts
    /\ "scene_complex.frag" \in Texts
    /\ "scene_difference.frag" \in Texts

(***************************************************************************)
(* The fragment shader's main and calculateLighting, one fragment after    *)
(* the other for the fragments of a frame                                  *)
(***************************************************************************)
\* the frame's size, width x height, in fragments
FramePixels == 2

\* ImplicitRenderer::ImplicitRenderer: ambientStrength(0.1f)
ambientStrength == Dec(1, 10)

\* length(lightPosition - shadowPos): closer than a step, and out of reach
LightDistances == {Dec(1, 4), Dec(5, 1)}

\* diffuse + specular for white light: none, and the most there can be
Lits == {Zero, Dec(3, 2)}

\* the background's first channel at the bottom and at the top of the frame
Backgrounds == {mix(Dec(1, 10), Dec(2, 10), Zero), mix(Dec(1, 10), Dec(2, 10), One)}

\* rayMarch is entered: depth = 0, steps = 0, i = 0
EnterRayMarch ==
    /\ pc' = "loop"
    /\ i' = 0
    /\ depth' = Zero
    /\ steps' = 0
    /\ dist' = NoVal
    /\ ret' = NoVal
    /\ hist' = <<>>

\* rayMarch's frame is gone
LeaveRayMarch ==
    /\ pc' = "idle"
    /\ i' = 0
    /\ depth' = NoVal
    /\ dist' = NoVal
    /\ steps' = 0
    /\ ret' = NoVal
    /\ hist' = <<>>

\* mix(0.5, 1.0, 1.0 - float(steps) / float(maxSteps))
DepthMultiplier(s, m) ==
    mix(Half, One, FSub(One, FDiv(Rat(s, 1), Rat(m, 1))))

\* main: ro, rd and the call rayMarch(ro, rd, steps)
FragmentMain ==
    /\ phase = "idle"
    /\ pc = "idle"
    /\ pixels < FramePixels
    /\ phase' = "primary"
    /\ EnterRayMarch
    /\ UNCHANGED <<sdf, ro, rd, mainSteps, mainDist, lightDist, lit, shadowSteps,
                   shadow, color, sdfCalls, pixels, frameCalls, rendererVars,
                   surfaceVars, appVars>>

\* main: dist < maxDistance; p, sceneNormal(p) with its six sceneSDF calls,
\* and calculateLighting up to its call rayMarch(shadowPos, shadowDir,
\* shadowSteps)
MainShade ==
    /\ phase = "primary"
    /\ pc = "done"
    /\ FLt(ret, maxDistance)
    /\ mainSteps' = steps
    /\ mainDist' = ret
    /\ sdfCalls' = sdfCalls + Len(hist) + 6
    /\ lightDist' \in LightDistances
    /\ lit' \in Lits
    /\ phase' = "shadow"
    /\ EnterRayMarch
    /\ UNCHANGED <<sdf, ro, rd, shadowSteps, shadow, color, pixels, frameCalls,
                   rendererVars, surfaceVars, appVars>>

\* main: the else branch, the background gradient
MainBackground ==
    /\ phase = "primary"
    /\ pc = "done"
    /\ ~FLt(ret, maxDistance)
    /\ mainSteps' = steps
    /\ mainDist' = ret
    /\ sdfCalls' = sdfCalls + Len(hist)
    /\ color' \in Backgrounds
    /\ phase' = "background"
    /\ LeaveRayMarch
    /\ UNCHANGED <<sdf, ro, rd, lightDist, lit, shadowSteps, shadow, pixels,
                   frameCalls, rendererVars, surfaceVars, appVars>>

\* a calculateLighting whose shadow march writes main's steps
LightingShadow_sharedCounter ==
    /\ phase = "shadow"
    /\ pc = "done"
    /\ shadowSteps' = steps
    /\ mainSteps' = steps
    /\ shadow' = IF FLt(ret, lightDist) THEN Half ELSE One
    /\ color' = FMul(FAdd(ambientStrength, FMul(lit, shadow')),
                     DepthMultiplier(mainSteps', maxSteps))
    /\ sdfCalls' = sdfCalls + Len(hist)
    /\ phase' = "shaded"
    /\ LeaveRayMarch
    /\ UNCHANGED <<sdf, ro, rd, mainDist, lightDist, lit, pixels,
                   frameCalls, rendererVars, surfaceVars, appVars>>

\* a calculateLighting that returns (ambient + diffuse + specular) * shadow
LightingShadow_shadowsAmbient ==
    /\ phase = "shadow"
    /\ pc = "done"
    /\ shadowSteps' = steps
    /\ shadow' = IF FLt(ret, lightDist) THEN Half ELSE One
    /\ color' = FMul(FMul(FAdd(ambientStrength, lit), shadow'),
                     DepthMultiplier(mainSteps, maxSteps))
    /\ sdfCalls' = sdfCalls + Len(hist)
    /\ phase' = "shaded"
    /\ LeaveRayMarch
    /\ UNCHANGED <<sdf, ro, rd, mainSteps, mainDist, lightDist, lit, pixels,
                   frameCalls, rendererVars, surfaceVars, appVars>>

\* calculateLighting: shadow = (shadowDist2 < length(lightPosition -
\* shadowPos)) ? 0.5 : 1.0; return ambient + (diffuse + specular) * shadow;
\* main: color *= mix(0.5, 1.0, depthFactor)
LightingShadow ==
    /\ phase = "shadow"
    /\ pc = "done"
    /\ shadowSteps' = steps
    /\ shadow' = IF FLt(ret, lightDist) THEN Half ELSE One
    /\ color' = FMul(FAdd(ambientStrength, FMul(lit, shadow')),
                     DepthMultiplier(mainSteps, maxSteps))
    /\ sdfCalls' = sdfCalls + Len(hist)
    /\ phase' = "shaded"
    /\ LeaveRayMarch
    /\ UNCHANGED <<sdf, ro, rd, mainSteps, mainDist, lightDist, lit, pixels,
                   frameCalls, rendererVars, surfaceVars, appVars>>

\* fragColor is written; the next fragment of the frame
FragmentDone ==
    /\ phase \in {"shaded", "background"}
    /\ pixels' = pixels + 1
    /\ frameCalls' = frameCalls + sdfCalls
    /\ phase' = "idle"
    /\ mainSteps' = 0
    /\ mainDist' = NoVal
    /\ lightDist' = NoVal
    /\ lit' = NoVal
    /\ shadowSteps' = 0
    /\ shadow' = NoVal
    /\ color' = NoVal
    /\ sdfCalls' = 0
    /\ UNCHANGED <<sdf, ro, rd, rendererVars, surfaceVars, marchVars, appVars>>

\* glDrawArrays has shaded every fragment; the next frame
FrameDone ==
    /\ phase = "idle"
    /\ pixels = FramePixels
    /\ pixels' = 0
    /\ frameCalls' = 0
    /\ UNCHANGED <<sdf, ro, rd, phase, mainSteps, mainDist, lightDist, lit,
                   shadowSteps, shadow, color, sdfCalls, rendererVars,
                   surfaceVars, marchVars, appVars>>

\* a program in use whose uniforms were set by setRaymarchingParams
InitPixel ==
    /\ maxSteps \in MarchSteps
    /\ maxDistance = Dec(3, 1)
    /\ epsilon = Dec(1, 1000)
    /\ SurfaceInit
    /\ MarchIdle
    /\ AppIdle
    /\ PixelIdle

NextPixel ==
    \/ FragmentMain
    \/ RayMarchHit
    \/ RayMarchMiss
    \/ RayMarchStep
    \/ RayMarchExhausted
    \/ MainShade
    \/ MainBackground
    \/ LightingShadow
    \/ FragmentDone
    \/ FrameDone

SpecPixel == InitPixel /\ [][NextPixel]_vars

\* the steps a march is run with: one, and enough to pass maxDistance and go on
ShadeSteps == {1, 3}

\* a program in use with positive epsilon and maxDistance, small and large
InitShade ==
    /\ maxSteps \in ShadeSteps
    /\ maxDistance \in MarchDistances
    /\ epsilon \in MarchEpsilons
    /\ SurfaceInit
    /\ MarchIdle
    /\ AppIdle
    /\ PixelIdle

SpecShade == InitShade /\ [][NextPixel]_vars

(***************************************************************************)
(* C15: the shadow factor                                                  *)
(***************************************************************************)
\* C15: the shadow march runs with the uniforms of the primary march; when
\* it has returned, the shadow factor is 0.5 if the returned distance is
\* strictly less than the distance from the offset point to the light and
\* 1.0 otherwise, never anything else; the lighting is ambient + (diffuse +
\* specular) * factor, the ambient term unscaled
C15_ShadowBinary ==
    /\ [](phase = "shaded" =>
            /\ shadow \in {Half, One}
            /\ color = FMul(FAdd(ambientStrength, FMul(lit, shadow)),
                            DepthMultiplier(mainSteps, maxSteps)))
    /\ [][( phase = "shadow" /\ phase' = "shaded" ) =>
             /\ shadow' = Half <=> FLt(ret, lightDist)
             /\ shadow' = One <=> ~FLt(ret, lightDist)]_vars
    /\ [][phase = "shadow" => UNCHANGED rendererVars]_vars

\* a lit point in shadow: the shadow march returned less than the light's
\* distance, and the diffuse and specular terms are not zero
C15_Witness ==
    /\ phase = "shaded"
    /\ shadow = Half
    /\ lit # Zero
    /\ shadowSteps > 0

(***************************************************************************)
(* C16: the depth multiplier                                               *)
(***************************************************************************)
\* the factor by which main scaled the lighting of the finished fragment
Multiplier == FDiv(color, FAdd(ambientStrength, FMul(lit, shadow)))

\* 0.5 * (1 - a) + 1.0 * a for a = 1 - s / maxSteps
StatedMultiplier(s) == Rat(2 * maxSteps - s, 2 * maxSteps)

\* C16: a fragment is shaded exactly when its primary march hit, at an
\* iteration 0..maxSteps-1 which main's steps holds; the shadow march
\* leaves main's steps alone; the lighting is scaled by
\* mix(0.5, 1.0, 1 - steps/maxSteps), which is above 0.5, at most 1.0, and
\* 1.0 exactly for a hit at iteration 0
C16_DepthMultiplier ==
    /\ [](phase = "shaded" =>
            /\ mainSteps \in 0..(maxSteps - 1)
            /\ Multiplier = StatedMultiplier(mainSteps)
            /\ FLt(Half, Multiplier)
            /\ ~FLt(One, Multiplier)
            /\ Multiplier = One <=> mainSteps = 0)
    /\ [][( phase = "primary" /\ phase' = "shadow" ) =>
             /\ FLt(dist, epsilon)
             /\ Len(hist) = i + 1
             /\ mainSteps' = i]_vars
    /\ [][( phase = "primary" /\ phase' = "background" ) => ~FLt(dist, epsilon) \/ ~FLt(depth, maxDistance)]_vars
    /\ [][phase = "shadow" => mainSteps' = mainSteps]_vars

\* a fragment hit at the last iteration and darkened most, whose shadow
\* march ended with another step count
C16_Witness ==
    /\ phase = "shaded"
    /\ maxSteps = MaxStepsBound
    /\ mainSteps = maxSteps - 1
    /\ shadowSteps # mainSteps
    /\ Multiplier = StatedMultiplier(maxSteps - 1)

(***************************************************************************)
(* C19: the sceneSDF evaluations of a frame                                *)
(***************************************************************************)
\* the evaluations made so far for the fragment being shaded
FragmentCalls == sdfCalls + Len(hist)

\* the statement as written: at most width x height x maxSteps evaluations
\* in a frame, those of the shadow march and of the normal included
C19_BoundedByMaxSteps ==
    frameCalls + FragmentCalls <= FramePixels * maxSteps

\* C19: a march evaluates the scene at most maxSteps times, a fragment at
\* most 2 * maxSteps + 6 times (primary march, six for the normal, shadow
\* march), and a frame at most width x height x (2 * maxSteps + 6) times
C19_BoundedByTwoMarches ==
    /\ Len(hist) <= maxSteps
    /\ FragmentCalls <= 2 * maxSteps + 6
    /\ pixels <= FramePixels
    /\ frameCalls <= pixels * (2 * maxSteps + 6)
    /\ frameCalls + FragmentCalls <= FramePixels * (2 * maxSteps + 6)

\* a finished frame in which every fragment took the most evaluations
C19_Witness ==
    /\ pixels = FramePixels
    /\ maxSteps = MaxStepsBound
    /\ frameCalls = FramePixels * (2 * maxSteps + 6)

(***************************************************************************)
(* The march of one ray from the default camera position over a scene     *)
(***************************************************************************)
\* the radii of the single spheres marched: 0.5, 1, ... 4.5
Radii == {Dec(n, 2) : n \in 1..9}

\* ImplicitRenderer::ImplicitRenderer: cameraPosition(0, 0, 5)
CameraPosition == Vec3(Zero, Zero, Dec(5, 1))

Towards == Vec3(Zero, Zero, Dec(-1, 1))

Away == Vec3(Zero, Zero, One)

\* a sphere at the origin, the union scene, and each of its spheres alone
RayScenes ==
    {Sphere(Origin, r) : r \in Radii}
        \cup {createCSGUnionScene, createCSGUnionScene.left, createCSGUnionScene.right}

\* the renderer's default march parameters, and a march cut short
InitRay ==
    /\ maxSteps \in {MaxStepsBound, 100}
    /\ maxDistance = Dec(100, 1)
    /\ epsilon = Dec(1, 1000)
    /\ SurfaceInit
    /\ MarchIdle
    /\ AppIdle
    /\ sdf \in RayScenes
    /\ ro = CameraPosition
    /\ rd \in {Towards, Away}
    /\ phase = "idle"
    /\ mainSteps = 0
    /\ mainDist = NoVal
    /\ lightDist = NoVal
    /\ lit = NoVal
    /\ shadowSteps = 0
    /\ shadow = NoVal
    /\ color = NoVal
    /\ sdfCalls = 0
    /\ pixels = 0
    /\ frameCalls = 0

SpecRay == InitRay /\ [][NextMarch]_vars

(***************************************************************************)
(* C17: the march at and away from a sphere                                *)
(***************************************************************************)
\* rayMarch has returned from a march over a sphere at the origin
SphereMarched ==
    /\ pc = "done"
    /\ sdf.type = "Sphere"
    /\ sdf.center = Origin
    /\ maxSteps = 100

\* C17: with epsilon 0.001, maxDistance 100 and maxSteps 100, the march
\* from (0, 0, 5) along -z over a sphere of radius r < 5 at the origin
\* ends in a hit at distance 5 - r, found at iteration 1 after two scene
\* evaluations; the march along +z ends in a miss, returning maxDistance
\* with steps = maxSteps
C17_SphereHitAndMiss ==
    /\ ( SphereMarched /\ rd = Towards ) =>
           /\ FLt(dist, epsilon)
           /\ ret = FSub(Dec(5, 1), sdf.radius)
           /\ steps = 1
           /\ Len(hist) = 2
    /\ ( SphereMarched /\ rd = Away ) =>
           /\ ~FLt(dist, epsilon)
           /\ FGe(depth, maxDistance)
           /\ ret = maxDistance
           /\ steps = maxSteps
           /\ i < maxSteps

\* the unit sphere was hit at distance 4
C17_Witness ==
    /\ SphereMarched
    /\ rd = Towards
    /\ sdf = createSphereScene
    /\ ret = Dec(4, 1)

(***************************************************************************)
(* C18: the march through the overlap of the union scene                   *)
(***************************************************************************)
\* rayMarch(o, dir, steps) over a scene, from iteration k on
RECURSIVE March(_, _, _, _, _)
March(node, o, dir, dep, k) ==
    IF ~(k < maxSteps) THEN maxDistance
    ELSE LET d == sceneSDF(node, VAdd(o, VScale(dir, dep)))
         IN  IF FLt(d, epsilon) THEN dep
             ELSE IF FGe(FAdd(dep, d), maxDistance) THEN maxDistance
             ELSE March(node, o, dir, FAdd(dep, d), k + 1)

\* the distance at which the ray of the state hits a scene
HitDistance(node) == March(node, ro, rd, Zero, 0)

\* rayMarch has returned from the march towards the union scene
UnionMarched ==
    /\ pc = "done"
    /\ sdf = createCSGUnionScene
    /\ rd = Towards
    /\ maxSteps = 100

\* the statement as written: the union is hit nearer than either sphere
C18_UnionHitsNearer ==
    UnionMarched =>
        /\ FLt(ret, HitDistance(sdf.left))
        /\ FLt(ret, HitDistance(sdf.right))

\* C18: the ray from (0, 0, 5) along -z hits the union of the two unit
\* spheres at (-0.5, 0, 0) and (0.5, 0, 0) at the very distance at which it
\* hits each of the two spheres alone (about 4.13), not nearer and not
\* farther
C18_UnionHitsWhereEachSphereDoes ==
    UnionMarched =>
        /\ FLt(dist, epsilon)
        /\ ret = HitDistance(sdf.left)
        /\ ret = HitDistance(sdf.right)
        /\ FLt(Dec(41, 10), ret)
        /\ FLt(ret, Dec(42, 10))

C18_Witness ==
    /\ UnionMarched
    /\ FLt(dist, epsilon)
    /\ FLt(ret, maxDistance)
    /\ ~FLt(ret, HitDistance(sdf.left))

(***************************************************************************)
(* C21: setScene stores the scene, recompiles, and renders a frame         *)
(***************************************************************************)
\* what setupShaders reports for the scene the renderer holds
Built == Outcome(SceneShader(heap, scene))

\* C21: setScene(s) performs, in this order and before it returns: store s
\* as the renderer's scene (it is stored when setupShaders is about to
\* run), recompile the shaders for s (unless the compilation failed, the
\* newest program is the one built from the text of s when render is about
\* to run), render one frame (when setScene is about to return, the last
\* frame drawn is one of the stored scene); the frame is rendered also
\* when setupShaders has reported a failure.
C21_SetSceneOrder ==
    /\ At("setScene:shaders") => scene = Top.arg
    /\ At("setScene:render") =>
        /\ scene = Top.arg
        /\ shaders # <<>>
        /\ Built # "compile error" =>
            /\ programID = Len(programs)
            /\ programs[programID].text = SceneShader(heap, scene)
            /\ programs[programID].linked = (Built = "ok")
    /\ At("setScene:return") => scene # 0 /\ drawn[2] = scene

\* a key's setScene is about to return after a failed link: the frame of
\* the new scene was drawn, with the program of an earlier scene
C21_Witness ==
    /\ At("setScene:return")
    /\ pressed > 0
    /\ Top.arg = scene
    /\ Built = "link error"
    /\ drawn = <<current, scene>>
    /\ current # programID

(***************************************************************************)
(* C22: events that select nothing change nothing                          *)
(***************************************************************************)
\* the event selects a scene: a press of a scene key while g_renderer is set
Selects(e) == e.action = "PRESS" /\ e.key \in SceneKeys /\ g_renderer

\* the event asks to leave: a press of ESCAPE, or the window's close request
Closes(e) ==
    \/ e.action = "PRESS" /\ e.key = "ESCAPE" /\ g_renderer
    \/ e.action = "CLOSE"

\* the values switchScene may be given besides 0..4
OtherIndexes == {-1, 5, 6}

\* C22: a step that takes a window event which selects no scene (a release
\* or a repeat, a key other than 1-5 and C, any key while g_renderer is
\* null) leaves the scene, its tree, the programs, the calls in progress
\* and the frames drawn unchanged; ESCAPE changes only the should-close
\* flag, which no other key event touches; and switchScene calls setScene
\* with no tree for an index outside 0..4.
C22_IdleEventsChangeNothing ==
    /\ [](\A n \in OtherIndexes : switchScene(n) = NoNode)
    /\ [][Len(keys') < Len(keys) =>
            /\ shouldClose' = (shouldClose \/ Closes(Head(keys)))
            /\ ~Selects(Head(keys)) =>
                 UNCHANGED <<heap, scene, programID, programs, current, stack,
                             used, drawn, shaders, deletedPrograms, g_renderer>>]_vars

\* a release, a repeat or an unbound key was taken after the default
\* scene was shown: still the default scene and its program
C22_Witness ==
    /\ At("poll")
    /\ pressed > 0
    /\ keys = <<>>
    /\ lastKey = ""
    /\ ~shouldClose
    /\ Tree(heap, scene) = createCSGIntersectionScene
    /\ Len(programs) = 2
    /\ programID = 2

(***************************************************************************)
(* C23: ESCAPE ends the run loop and the program                           *)
(***************************************************************************)
\* run() has returned to main
RunLeft == At("main:exit") \/ (At("exited") /\ returned = <<0>>)

EscapePress == [key |-> "ESCAPE", action |-> "PRESS"]

\* C23: the step that delivers an ESCAPE press to keyCallback sets the
\* should-close flag, and the flag stays set; run's loop-condition check
\* leaves the loop when the flag is set (the frame in progress was finished
\* before the check) and enters the next iteration when it is not; once
\* run has returned no frame is drawn, and main clears g_renderer and
\* returns 0; run returns only with the flag set, and the flag is set only
\* by the delivery of an ESCAPE press or of a window close request.
C23_EscapeEndsRun ==
    /\ [](RunLeft => shouldClose)
    /\ [](At("exited") /\ returned = <<0>> => ~g_renderer)
    /\ [][/\ Len(keys') < Len(keys) /\ Head(keys) = EscapePress => shouldClose'
          /\ shouldClose => shouldClose'
          /\ shouldClose' # shouldClose =>
                Len(keys') < Len(keys) /\ Closes(Head(keys))
          /\ At("run:test") =>
                stack' = IF shouldClose THEN <<Frame("main:exit", 0)>>
                         ELSE <<Frame("main:exit", 0), Frame("run:poll", 0)>>
          /\ At("main:exit") =>
                stack' = <<Frame("exited", 0)>> /\ returned' = <<0>> /\ ~g_renderer'
          /\ RunLeft => drawn' = drawn /\ used' = used]_vars

\* main has returned 0 after the loop was left with the flag set and at
\* least one frame drawn
C23_Witness ==
    /\ At("exited")
    /\ returned = <<0>>
    /\ ~g_renderer
    /\ shouldClose
    /\ pressed > 0
    /\ drawn # <<0, 0>>

(***************************************************************************)
(* C24: the default scene                                                  *)
(***************************************************************************)
\* main's setScene has stored a scene and no scene key was pressed yet
ShowsDefault == scene # 0 /\ lastKey = ""

\* C24: the scene shown at startup, after a successful initialize and
\* before any scene key is pressed, is the Complex CSG operation scene
\* (the tree of createComplexCSGScene).
C24_DefaultIsComplex ==
    ShowsDefault => Tree(heap, scene) = createComplexCSGScene

\* the first frame of the run loop is about to start with no event made:
\* the scene held and drawn is the intersection of a sphere and a box,
\* drawn with the program built from the intersection text
C24_DefaultIsIntersection ==
    /\ At("run:test")
    /\ pressed = 0
    /\ ShowsDefault
    /\ Tree(heap, scene) = createCSGIntersectionScene
    /\ drawn = <<programID, scene>>
    /\ programs[programID].text = "scene_intersection.frag"

(***************************************************************************)
(* C25: rayMarch terminates within maxSteps iterations                     *)
(***************************************************************************)
\* C25: every rayMarch call terminates (a call that is in its loop
\* returns), after at most maxSteps loop iterations (the counter i never
\* exceeds maxSteps and rises by one with every iteration that goes on) and
\* at most maxSteps scene evaluations, for every sequence of scene
\* distances, zero, negative, non-advancing, infinite and NaN included, and
\* for zero and negative epsilon and maxDistance.
C25_MarchTerminates ==
    /\ [](pc \in {"loop", "done"} =>
            /\ 0 <= i /\ i <= maxSteps
            /\ Len(hist) <= maxSteps
            /\ Len(hist) \in {i, i + 1})
    /\ [][pc = "loop" /\ pc' = "loop" => i' = i + 1 /\ Len(hist') = i']_vars
    /\ (pc = "loop" ~> pc = "done")

\* a march that ran all its iterations on distances that do not advance
\* it, with an epsilon that no distance is below
C25_Witness ==
    /\ pc = "done"
    /\ maxSteps = MaxStepsBound
    /\ Len(hist) = maxSteps
    /\ ~FLt(Zero, epsilon)
    /\ \E n \in DOMAIN hist : hist[n] = Zero
    /\ \E n \in DOMAIN hist : IsNaN(hist[n])
    /\ \E n \in DOMAIN hist : FLt(hist[n], Zero)

(***************************************************************************)
(* C26: rayMarch's result is below maxDistance exactly for a hit           *)
(***************************************************************************)
\* C26: with epsilon > 0 and maxDistance > 0 and finite scene distances,
\* the accumulated depth never decreases during a march; a march that
\* ended by the hit exit returned a depth in [0, maxDistance); the value
\* returned is below maxDistance exactly when the march ended by the hit
\* exit; and main shades the fragment exactly when its march hit and
\* paints the background for every miss and every exhaustion.
C26_HitIffBelowMaxDistance ==
    /\ [](FLt(Zero, epsilon) /\ FLt(Zero, maxDistance))
    /\ [](ReturnedOnHit => ~FLt(ret, Zero) /\ FLt(ret, maxDistance))
    /\ [](pc = "done" => (FLt(ret, maxDistance) <=> ReturnedOnHit))
    /\ [][pc = "loop" => ~FLt(depth', depth)]_vars
    /\ [][phase = "primary" /\ phase' = "shadow" => ReturnedOnHit]_vars
    /\ [][phase = "primary" /\ phase' = "background" =>
            pc = "done" /\ ~ReturnedOnHit /\ ret = maxDistance]_vars

\* a fragment shaded after a hit at a depth above zero, with the larger
\* epsilon and maxDistance
C26_Witness ==
    /\ phase = "shadow"
    /\ epsilon = Half
    /\ maxDistance = Dec(50, 1)
    /\ FLt(Zero, mainDist)
    /\ FLt(mainDist, maxDistance)
    /\ mainSteps > 0

(***************************************************************************)
(* C27: a shadow march that hits nothing                                   *)
(***************************************************************************)
\* C27: whenever the shadow march from p + 0.1 * n has ended without a hit
\* (by the miss exit or by exhaustion), calculateLighting's shadow factor
\* is 1.0, for every distance of the light and every maxDistance.
C27_NoHitNoShadow ==
    [][phase = "shadow" /\ phase' = "shaded" /\ ~ReturnedOnHit => shadow' = One]_vars

\* a fragment whose shadow march left by the miss exit (its steps are
\* maxSteps) and whose light is farther away than maxDistance: the factor
\* is 0.5
C27_DarkenedWithoutHit ==
    /\ phase = "shaded"
    /\ maxSteps > 0
    /\ shadowSteps = maxSteps
    /\ FLt(maxDistance, lightDist)
    /\ shadow = Half

(***************************************************************************)
(* C28: the GL objects setupShaders creates                                *)
(***************************************************************************)
\* the programs glCreateProgram returned and glDeleteProgram was not
\* called for
LivePrograms == {id \in 1..Len(programs) : id \notin deletedPrograms}

\* the shader objects glDeleteShader was not called for
LiveShaders == {n \in 1..Len(shaders) : ~shaders[n].deleted}

\* C28: after any sequence of initialize and setScene calls at most one
\* program created by setupShaders exists undeleted, every shader object
\* setupShaders created has been deleted, whether it succeeded or failed,
\* and after the destructor no created program remains.
C28_NoLeakedGLObjects ==
    /\ Cardinality(LivePrograms) <= 1
    /\ LiveShaders = {}
    /\ At("exited") => LivePrograms = {}

\* main has returned 0: programs of earlier scenes were never deleted, and
\* the shaders of a failed build neither
C28_LeakedAtExit ==
    /\ At("exited")
    /\ returned = <<0>>
    /\ programID \in deletedPrograms
    /\ Cardinality(LivePrograms) >= 2
    /\ LiveShaders # {}

(***************************************************************************)
(* The scene texts, and the fragment shader's sceneSDF next to evaluate    *)
(***************************************************************************)
\* the half-extents 0.8 the factory scenes' boxes have
BoxDimensions == Vec3(Dec(4, 5), Dec(4, 5), Dec(4, 5))

\* float sceneSDF(vec3 p) as the scene texts define it, text by text
SceneTextSDF(text, p) ==
    CASE text = "scene_sphere.frag" ->
            sphereSDF(p, Origin, One)
      [] text = "scene_union.frag" ->
            unionOp(sphereSDF(p, Vec3(Dec(-1, 2), Zero, Zero), One),
                    sphereSDF(p, Vec3(Dec(1, 2), Zero, Zero), One))
      [] text = "scene_intersection.frag" ->
            intersectionOp(sphereSDF(p, Origin, One),
                           boxSDF(p, Origin, BoxDimensions))
      [] text = "scene_difference.frag" ->
            differenceOp(sphereSDF(p, Origin, One),
                         boxSDF(p, Vec3(Dec(1, 2), Zero, Zero), BoxDimensions))
      [] text = "scene_complex.frag" ->
            differenceOp(unionOp(sphereSDF(p, Vec3(Dec(-1, 1), Zero, Zero), Dec(6, 5)),
                                 sphereSDF(p, Vec3(One, Zero, Zero), Dec(6, 5))),
                         boxSDF(p, Origin, BoxDimensions))

\* the text setupShaders selects when the renderer's scene is the tree
SelectedText(tree) ==
    LET made == Alloc(<<>>, tree)
    IN  SceneShader(made.h, made.root)

\* the trees switchScene passes to setScene for the indexes 0..4
HardFactoryScenes == {switchScene(n) : n \in 0..4}

\* the fragment shader evaluates sceneSDF, of the text selected for the
\* tree held, at the point evaluate was called with
ShaderSceneSDF ==
    /\ op = "evaluate"
    /\ obj \in HardFactoryScenes
    /\ sval' = SceneTextSDF(SelectedText(obj), arg)
    /\ op' = "sceneSDF"
    /\ UNCHANGED <<obj, arg, val, childL, childR, evals, diff, grad, rendererVars,
                   marchVars, appVars, pixelVars>>

NextScene == CreateScene \/ Evaluate \/ ShaderSceneSDF \/ Discard

SpecScene == InitEval /\ [][NextScene]_vars

(***************************************************************************)
(* C29: the scene text and the factory's tree are the same function        *)
(***************************************************************************)
\* C29: for each factory scene of the indexes 0..4 the sceneSDF of the text
\* selected for it and evaluate of the tree the factory built return the
\* same value at every point.
C29_ShaderAgreesWithTree ==
    op = "sceneSDF" => sval = val

\* at the centre of the intersection scene the box decides: evaluate
\* returns -0.9 (the box's -0.8 less its smoothing 0.1), the shader -0.8
C29_BoxOffsetDiverges ==
    /\ op = "sceneSDF"
    /\ obj = createCSGIntersectionScene
    /\ arg = Origin
    /\ val = Dec(-9, 10)
    /\ sval = Dec(-4, 5)
    /\ FSub(sval, val) = obj.right.smoothing

\* the texts without a box agree with their trees at every point sampled
SphereScenesAgree ==
    (op = "sceneSDF" /\ obj \in {createSphereScene, createCSGUnionScene})
        => sval = val

====
